---- MODULE Spec2Model ----
(***************************************************************************)
(* Model of kem-a/appimage-thumbnailer.                                    *)
(*                                                                         *)
(* Two programs are modelled, selected by the variable prog:               *)
(*   "thumbnailer"  src/src/appimage-thumbnailer.c (7z + DwarFS tools)     *)
(*   "main"         src/src/main.c                 (7z only)               *)
(* together with the header parser of src/src/appimage-type.c.             *)
(*                                                                         *)
(* Byte buffers and C strings are sequences of byte values 0..255.         *)
(* External tools (7z, dwarfsextract, dwarfsck, the image libraries) are   *)
(* the environment: each invocation draws its outcome from a small set.    *)
(***************************************************************************)
EXTENDS Integers, Sequences, FiniteSets, TLC

(***************************************************************************)
(* Program constants                                                       *)
(***************************************************************************)
MAX_SYMLINK_DEPTH == 5
MAX_DIRICON_CHAIN == 8
POINTER_TEXT_LIMIT_T == 1024
POINTER_TEXT_LIMIT_M == 4096
MIN_7Z_MAJOR == 23
MIN_7Z_MINOR == 1

APPIMAGE_FORMAT_UNKNOWN == "Unknown"
APPIMAGE_FORMAT_SQUASHFS == "SquashFS"
APPIMAGE_FORMAT_DWARFS == "DwarFS"

ELF_MAGIC == <<127, 69, 76, 70>>
AI_MAGIC == <<65, 73>>
SQFS_MAGIC == <<104, 115, 113, 115>>
DWARFS_MAGIC == <<68, 87, 65, 82, 70, 83>>

(***************************************************************************)
(* String literals of the sources                                          *)
(***************************************************************************)
DirIcon == \* ".DirIcon"
    <<46, 68, 105, 114, 73, 99, 111, 110>>
ExtSvg == \* ".svg"
    <<46, 115, 118, 103>>
ExtPng == \* ".png"
    <<46, 112, 110, 103>>
ExtXpm == \* ".xpm"
    <<46, 120, 112, 109>>
DesktopSuffix == \* ".desktop"
    <<46, 100, 101, 115, 107, 116, 111, 112>>
PathPrefix == \* "Path = "
    <<80, 97, 116, 104, 32, 61, 32>>
IconPrefix == \* "Icon="
    <<73, 99, 111, 110, 61>>
DotSlash == \* "./"
    <<46, 47>>
Arrow == \* " -> "
    <<32, 45, 62, 32>>
RootLocal == \* ".local/share/icons"
    <<46, 108, 111, 99, 97, 108, 47, 115, 104, 97, 114, 101, 47, 105, 99, 111, 110, 115>>
RootIcons == \* "usr/share/icons"
    <<117, 115, 114, 47, 115, 104, 97, 114, 101, 47, 105, 99, 111, 110, 115>>
RootPixmaps == \* "usr/share/pixmaps"
    <<117, 115, 114, 47, 115, 104, 97, 114, 101, 47, 112, 105, 120, 109, 97, 112, 115>>

extensions == <<ExtSvg, ExtPng, ExtXpm>>
roots == <<RootLocal, RootIcons, RootPixmaps>>

(***************************************************************************)
(* GLib / libc string primitives, on byte sequences                        *)
(***************************************************************************)
SetMin(S) == CHOOSE x \in S : \A y \in S : x <= y
SetMax(S) == CHOOSE x \in S : \A y \in S : x >= y
MaxOr0(S) == IF S = {} THEN 0 ELSE SetMax(S)
MinOr0(S) == IF S = {} THEN 0 ELSE SetMin(S)

g_ascii_isspace(c) == c \in 9..13 \/ c = 32
g_ascii_isprint(c) == c \in 32..126
g_ascii_isdigit(c) == c \in 48..57
g_ascii_isalnum(c) == c \in 48..57 \/ c \in 65..90 \/ c \in 97..122
g_ascii_tolower(c) == IF c \in 65..90 THEN c + 32 ELSE c

\* The C string that starts at a buffer: the bytes before the first NUL.
CStr(s) ==
    LET nul == {i \in 1..Len(s) : s[i] = 0}
    IN  IF nul = {} THEN s ELSE SubSeq(s, 1, SetMin(nul) - 1)

\* keep = the indexes of the characters that are not whitespace.
NonSpace(s) == {i \in 1..Len(s) : ~g_ascii_isspace(s[i])}
StripTo(s, keep) == IF keep = {} THEN <<>> ELSE SubSeq(s, SetMin(keep), SetMax(keep))
ChompTo(s, keep) == IF keep = {} THEN <<>> ELSE SubSeq(s, 1, SetMax(keep))
g_strstrip(s) == StripTo(s, NonSpace(s))
g_strchomp(s) == ChompTo(s, NonSpace(s))

g_str_has_prefix(s, p) == Len(s) >= Len(p) /\ SubSeq(s, 1, Len(p)) = p
g_str_has_suffix(s, p) ==
    Len(s) >= Len(p) /\ SubSeq(s, Len(s) - Len(p) + 1, Len(s)) = p

Lower(s) == [i \in 1..Len(s) |-> g_ascii_tolower(s[i])]
\* g_ascii_strcasecmp(a, b) == 0
StrCaseEq(a, b) == Lower(a) = Lower(b)
\* g_ascii_strncasecmp(a, b, n) == 0 for a string b of length n
StrNCaseEq(a, b) == Len(a) >= Len(b) /\ Lower(SubSeq(a, 1, Len(b))) = Lower(b)

\* Index of the last / first occurrence of a byte, 0 when absent.
strrchr(s, c) == MaxOr0({i \in 1..Len(s) : s[i] = c})
strchr(s, c) == MinOr0({i \in 1..Len(s) : s[i] = c})

\* Indexes at which needle occurs in s.
Occurrences(s, needle) ==
    {i \in 1..(Len(s) - Len(needle) + 1) : SubSeq(s, i, i + Len(needle) - 1) = needle}
\* g_strrstr / g_strstr_len(s, -1, needle): index of the match, 0 when absent.
g_strrstr(s, needle) == MaxOr0(Occurrences(s, needle))
g_strstr(s, needle) == MinOr0(Occurrences(s, needle))

\* g_strsplit(s, sep, -1) for a one-byte separator: the empty string gives
\* the empty vector, otherwise one piece more than there are separators.
\* at = the indexes of the separators; KthOf gives the k-th of them.
KthOf(at, k) == CHOOSE i \in at : Cardinality({j \in at : j < i}) = k - 1
PieceFirst(at, k) == IF k = 1 THEN 1 ELSE KthOf(at, k - 1) + 1
PieceLast(s, at, k) == IF k = Cardinality(at) + 1 THEN Len(s) ELSE KthOf(at, k) - 1
SplitAt(s, at) ==
    [k \in 1..(Cardinality(at) + 1) |-> SubSeq(s, PieceFirst(at, k), PieceLast(s, at, k))]
g_strsplit(s, sep) ==
    IF s = <<>> THEN <<>> ELSE SplitAt(s, {i \in 1..Len(s) : s[i] = sep})

\* g_path_get_basename for the relative, non-empty paths of a listing.
\* t = s without its trailing slashes.
BasenameOf(t) == IF t = <<>> THEN <<47>> ELSE SubSeq(t, strrchr(t, 47) + 1, Len(t))
g_path_get_basename(s) ==
    IF s = <<>> THEN <<46>>
    ELSE BasenameOf(SubSeq(s, 1, MaxOr0({i \in 1..Len(s) : s[i] # 47})))

\* Value of a run of decimal digits.
RECURSIVE DigitsVal(_)
DigitsVal(d) ==
    IF d = <<>> THEN 0
    ELSE 10 * DigitsVal(SubSeq(d, 1, Len(d) - 1)) + (d[Len(d)] - 48)

\* Length of the maximal run of digits of s that starts at index i.
DigitRun(s, i) ==
    LET stop == {j \in i..Len(s) : ~g_ascii_isdigit(s[j])}
    IN  IF stop = {} THEN Len(s) - i + 1 ELSE SetMin(stop) - i

\* strtol(s + i - 1, &end, 10): value and index of end; end = i when no
\* conversion was made.
\* j0 = index of the first non-space character (Len(s) + 1 when none),
\* j1 = index after the optional sign, run = number of digits from j1.
StrtolSkipSpace(s, i) ==
    SetMin({j \in i..(Len(s) + 1) : j = Len(s) + 1 \/ ~g_ascii_isspace(s[j])})
StrtolSkipSign(s, j0) == IF j0 <= Len(s) /\ s[j0] \in {43, 45} THEN j0 + 1 ELSE j0
StrtolRun(s, j1) == IF j1 <= Len(s) THEN DigitRun(s, j1) ELSE 0
StrtolResult(s, i, neg, j1, run, v) ==
    IF run = 0 THEN [value |-> 0, end |-> i]
    ELSE [value |-> IF neg THEN 0 - v ELSE v, end |-> j1 + run]
StrtolDigits(s, i, neg, j1, run) ==
    StrtolResult(s, i, neg, j1, run, DigitsVal(SubSeq(s, j1, j1 + run - 1)))
StrtolSigned(s, i, j0, j1) ==
    StrtolDigits(s, i, j0 <= Len(s) /\ s[j0] = 45, j1, StrtolRun(s, j1))
StrtolFrom(s, i, j0) == StrtolSigned(s, i, j0, StrtolSkipSign(s, j0))
strtol(s, i) == StrtolFrom(s, i, StrtolSkipSpace(s, i))

\* parse_size_argument (the same in both programs); args holds the argument
\* when there is one.
DEFAULT_THUMBNAIL_SIZE == 256
MAX_THUMBNAIL_SIZE == 4096
SizeOfParsed(r) ==
    IF r.end = 1 \/ r.value <= 0 \/ r.value > MAX_THUMBNAIL_SIZE
        THEN DEFAULT_THUMBNAIL_SIZE
    ELSE r.value
parse_size_argument(args) ==
    IF args = <<>> THEN DEFAULT_THUMBNAIL_SIZE ELSE SizeOfParsed(strtol(args[1], 1))

(***************************************************************************)
(* Header Parser: src/src/appimage-type.c                                  *)
(* A container is the byte sequence of the file; offset o is index o + 1.  *)
(***************************************************************************)
\* read(fd, buf, n) after lseek(fd, off): the bytes obtained (short at EOF).
ReadAt(file, off, n) ==
    IF off >= Len(file) THEN <<>>
    ELSE SubSeq(file, off + 1, IF off + n <= Len(file) THEN off + n ELSE Len(file))

RECURSIVE FromLE(_)
FromLE(b) == IF b = <<>> THEN 0 ELSE b[1] + 256 * FromLE(Tail(b))

\* Integers of the C types are kept as their bytes, least significant first:
\* uint16_t 2 bytes, uint32_t 4, uint64_t and off_t 8 (two's complement).
Reverse(b) == [i \in 1..Len(b) |-> b[Len(b) + 1 - i]]
\* Conversion of an unsigned value to a 64-bit type.
Word(b) == [i \in 1..8 |-> IF i <= Len(b) THEN b[i] ELSE 0]
MinusOne == [i \in 1..8 |-> 255]
IsNegative(w) == w[8] >= 128
IsZero(w) == \A i \in 1..8 : w[i] = 0

\* (uint32_t)a * (uint32_t)b for two uint16_t: the product is below 2^32.
MulCarry(p0, p1, p2) ==
    <<p0 % 256, ((p0 \div 256) + p1) % 256,
      ((((p0 \div 256) + p1) \div 256) + p2) % 256,
      ((((p0 \div 256) + p1) \div 256) + p2) \div 256>>
Mul16(a, b) == MulCarry(a[1] * b[1], a[1] * b[2] + a[2] * b[1], a[2] * b[2])

\* x + y of two 64-bit values, modulo 2^64.
RECURSIVE AddFrom(_, _, _, _)
AddFrom(x, y, i, carry) ==
    IF i > 8 THEN <<>>
    ELSE <<(x[i] + y[i] + carry) % 256>>
         \o AddFrom(x, y, i + 1, (x[i] + y[i] + carry) \div 256)
Add64(x, y) == AddFrom(x, y, 1, 0)
\* The sum of two off_t leaves the range of off_t: undefined behaviour.
AddOverflows(x, y) ==
    /\ IsNegative(x) = IsNegative(y)
    /\ IsNegative(Add64(x, y)) # IsNegative(x)

\* Fault: the file position keeps the low bytes of the offset only.
ReadAtOff_Truncated(file, offset, n) == ReadAt(file, FromLE(SubSeq(offset, 1, 3)), n)

\* lseek(fd, offset) + read(fd, buf, n) for an off_t that is not negative;
\* no file has 2^24 bytes.
ReadAtOff(file, offset, n) ==
    IF \E i \in 4..8 : offset[i] # 0 THEN <<>>
    ELSE ReadAt(file, FromLE(SubSeq(offset, 1, 3)), n)

\* GUINTn_FROM_BE when e_ident[5] = 2, GUINTn_FROM_LE otherwise.
DecodeField(b, elf_data) == IF elf_data = 2 THEN Reverse(b) ELSE b

\* appimage_get_type: 1 or 2 for AppImages, -1 otherwise.
\* header = the 16 bytes read at offset 0 (fewer at a short file).
TypeOfHeader(header) ==
    IF Len(header) < 16 THEN -1
    ELSE IF SubSeq(header, 1, 4) # ELF_MAGIC THEN -1
    ELSE IF SubSeq(header, 9, 10) # AI_MAGIC THEN -1
    ELSE header[11]
appimage_get_type(file) == TypeOfHeader(ReadAt(file, 0, 16))

\* appimage_payload_offset: e_shoff + e_shnum * e_shentsize, -1 on failure:
\* [off, defined], defined = the addition stayed within off_t.
\* The three header fields as read: shoffB of shoffLen bytes, shentB and
\* shnumB of 2 bytes each.
NoOffset == [off |-> MinusOne, defined |-> TRUE]
PayloadSum(shoff, product) ==
    [off |-> Add64(shoff, product), defined |-> ~AddOverflows(shoff, product)]
OffsetOfFields(shoffB, shoffLen, shentB, shnumB, elf_data) ==
    IF Len(shoffB) # shoffLen \/ Len(shentB) # 2 \/ Len(shnumB) # 2 THEN NoOffset
    ELSE PayloadSum(Word(DecodeField(shoffB, elf_data)),
                    Word(Mul16(DecodeField(shnumB, elf_data),
                               DecodeField(shentB, elf_data))))
\* Field positions of the ELF64 (elf_class = 2) and ELF32 headers.
OffsetOfClass(file, elf_class, elf_data) ==
    IF elf_class = 2
        THEN OffsetOfFields(ReadAt(file, 40, 8), 8, ReadAt(file, 58, 2),
                            ReadAt(file, 60, 2), elf_data)
    ELSE IF elf_class = 1
        THEN OffsetOfFields(ReadAt(file, 32, 4), 4, ReadAt(file, 46, 2),
                            ReadAt(file, 48, 2), elf_data)
    ELSE NoOffset
OffsetOfIdent(file, ident) ==
    IF Len(ident) < 16 THEN NoOffset
    ELSE IF SubSeq(ident, 1, 4) # ELF_MAGIC THEN NoOffset
    ELSE OffsetOfClass(file, ident[5], ident[6])
appimage_payload_offset(file) == OffsetOfIdent(file, ReadAt(file, 0, 16))

\* appimage_detect_format
\* magic = the up to 8 bytes read at the payload offset.
FormatOfMagic(magic) ==
    IF Len(magic) < 4 THEN APPIMAGE_FORMAT_UNKNOWN
    ELSE IF SubSeq(magic, 1, 4) = SQFS_MAGIC THEN APPIMAGE_FORMAT_SQUASHFS
    ELSE IF Len(magic) >= 6 /\ SubSeq(magic, 1, 6) = DWARFS_MAGIC
         THEN APPIMAGE_FORMAT_DWARFS
    ELSE APPIMAGE_FORMAT_UNKNOWN
FormatAt(file, offset) ==
    IF IsNegative(offset) \/ IsZero(offset) THEN APPIMAGE_FORMAT_UNKNOWN
    ELSE FormatOfMagic(ReadAtOff(file, offset, 8))
appimage_detect_format(file) == FormatAt(file, appimage_payload_offset(file).off)

(***************************************************************************)
(* Pointer Resolver                                                        *)
(***************************************************************************)
PointerCharOk(c) == c \in {47, 46, 45, 95} \/ g_ascii_isalnum(c)

\* is_pointer_candidate of appimage-thumbnailer.c: [ok, text].
NotPointer == [ok |-> FALSE, text |-> <<>>]

\* The scan of the trimmed text in appimage-thumbnailer.c.
PointerOfTrimmed_T(trimmed) ==
    IF trimmed = <<>> THEN NotPointer
    ELSE IF \E i \in 1..Len(trimmed) : ~PointerCharOk(trimmed[i]) THEN NotPointer
    ELSE [ok |-> TRUE, text |-> trimmed]
\* Fault: the pointer text is the buffer as it came, whitespace included.
is_pointer_candidate_T_Untrimmed(data) ==
    IF Len(data) = 0 \/ Len(data) > POINTER_TEXT_LIMIT_T THEN NotPointer
    ELSE IF \E i \in 1..Len(data) :
                data[i] = 0 \/ (~g_ascii_isprint(data[i]) /\ ~g_ascii_isspace(data[i]))
        THEN NotPointer
    ELSE IF PointerOfTrimmed_T(g_strstrip(data)).ok THEN [ok |-> TRUE, text |-> data]
    ELSE NotPointer
is_pointer_candidate_T(data) ==
    IF Len(data) = 0 \/ Len(data) > POINTER_TEXT_LIMIT_T THEN NotPointer
    ELSE IF \E i \in 1..Len(data) :
                data[i] = 0 \/ (~g_ascii_isprint(data[i]) /\ ~g_ascii_isspace(data[i]))
        THEN NotPointer
    ELSE PointerOfTrimmed_T(g_strstrip(data))

\* is_pointer_candidate of main.c: the scan of the trimmed text stops at the
\* first whitespace character and accepts.
\* The characters the scan of main.c looks at: those before the first
\* whitespace character of the trimmed text.
Scanned(trimmed, sp) == IF sp = {} THEN trimmed ELSE SubSeq(trimmed, 1, SetMin(sp) - 1)
PointerOfScanned_M(trimmed, scanned) ==
    IF trimmed = <<>> THEN NotPointer
    ELSE IF \E i \in 1..Len(scanned) : ~PointerCharOk(scanned[i]) THEN NotPointer
    ELSE [ok |-> TRUE, text |-> trimmed]
PointerOfTrimmed_M(trimmed) ==
    PointerOfScanned_M(trimmed,
        Scanned(trimmed, {i \in 1..Len(trimmed) : g_ascii_isspace(trimmed[i])}))
\* Fault: no test for NUL bytes; g_strndup copies the bytes before the first.
is_pointer_candidate_M_NoNulTest(data) ==
    IF Len(data) = 0 \/ Len(data) > POINTER_TEXT_LIMIT_M THEN NotPointer
    ELSE PointerOfTrimmed_M(g_strstrip(CStr(data)))
is_pointer_candidate_M(data) ==
    IF Len(data) = 0 \/ Len(data) > POINTER_TEXT_LIMIT_M THEN NotPointer
    ELSE IF \E i \in 1..Len(data) : data[i] = 0 THEN NotPointer
    ELSE PointerOfTrimmed_M(g_strstrip(data))

(***************************************************************************)
(* Backend Capability Probe                                                *)
(***************************************************************************)
\* The version scan of check_7z_available over the NUL-terminated banner:
\* the first digit run followed by '.' gives major, strtol after it minor.
\* Whether the digit run at p is followed by '.', given end = index after it.
DotFollows(s, end) == end <= Len(s) /\ s[end] = 46
VersionAt(s, major) ==
    [major |-> major.value, minor |-> strtol(s, major.end + 1).value]
VersionFrom(s, hit) ==
    IF hit = {} THEN [major |-> 0, minor |-> 0]
    ELSE VersionAt(s, strtol(s, SetMin(hit)))
ScanBanner(s) ==
    VersionFrom(s, {p \in 1..Len(s) :
                      g_ascii_isdigit(s[p]) /\ DotFollows(s, strtol(s, p).end)})
ParseBanner(banner) == ScanBanner(CStr(banner))

VersionOk(major, minor) ==
    major > MIN_7Z_MAJOR \/ (major = MIN_7Z_MAJOR /\ minor >= MIN_7Z_MINOR)

\* g_find_program_in_path: whether the command search path holds the tool.
\* at = the places where the tool is executable.
g_find_program_in_path(at) == "path" \in at

\* The value check_7z_available computes on its first call.
\* env = [at, spawn, banner]: where 7z is executable, whether
\* pipe() and fork() succeed, and what the child writes to stdout.
VersionFound(v) ==
    IF v.major = 0 /\ v.minor = 0 THEN FALSE ELSE VersionOk(v.major, v.minor)
Probe7z(env) ==
    IF ~g_find_program_in_path(env.at) THEN FALSE
    ELSE IF ~env.spawn THEN FALSE
    ELSE IF Len(env.banner) = 0 THEN FALSE
    ELSE VersionFound(ParseBanner(env.banner))

\* find_tool: the first location that holds an executable, "" when none.
\* at = the subset of Locations where the tool is executable.
Locations == <<"bundled", "adjacent", "adjacent-parent", "path">>
FirstLocation(hit) == IF hit = {} THEN "" ELSE Locations[SetMin(hit)]
find_tool(at) == FirstLocation({i \in 1..Len(Locations) : Locations[i] \in at})

(***************************************************************************)
(* Environment: what the external tools can answer                         *)
(***************************************************************************)
PtrIconsApp == \* "icons/app.svg"
    <<105, 99, 111, 110, 115, 47, 97, 112, 112, 46, 115, 118, 103>>
PtrDirIconNl == \* ".DirIcon\n"
    <<46, 68, 105, 114, 73, 99, 111, 110, 10>>
ImgBytes == \* "\x89PNG\0"
    <<137, 80, 78, 71, 0>>

\* Entry contents a tool can deliver.
Payloads == {<<>>, PtrIconsApp, PtrDirIconNl, ImgBytes}

\* One run of "7z e -so": exit status 0 or not, and the bytes on stdout.
Failed == [ok |-> FALSE, bytes |-> <<>>]
Out7z == {Failed} \cup {[ok |-> TRUE, bytes |-> b] : b \in Payloads}

\* One run of dwarfsextract into a fresh temporary directory: whether the
\* directory could be made, the exit status, and what is found afterwards at
\* <tmpdir>/<entry>: nothing, a regular file, a symlink, an unreadable link.
NoTmpDir == [tmp |-> FALSE, ok |-> FALSE, kind |-> "none", bytes |-> <<>>]
OutDwarfs ==
    {NoTmpDir,
     [tmp |-> TRUE, ok |-> FALSE, kind |-> "none", bytes |-> <<>>],
     [tmp |-> TRUE, ok |-> TRUE, kind |-> "none", bytes |-> <<>>],
     [tmp |-> TRUE, ok |-> TRUE, kind |-> "badlink", bytes |-> <<>>],
     [tmp |-> TRUE, ok |-> TRUE, kind |-> "symlink", bytes |-> PtrIconsApp]}
    \cup {[tmp |-> TRUE, ok |-> TRUE, kind |-> "file", bytes |-> b] : b \in Payloads}

\* The image libraries decide whether bytes decode; nothing decodes from
\* an empty buffer.
NormResults(bytes) == IF bytes = <<>> THEN {FALSE} ELSE BOOLEAN

(***************************************************************************)
(* Extraction Backends and Dispatcher of appimage-thumbnailer.c            *)
(***************************************************************************)
\* The entry handed to the tool: one leading '/' removed.
CleanEntry(entry) == IF entry # <<>> /\ entry[1] = 47 THEN Tail(entry) ELSE entry

NoCall == [invoked |-> <<>>, ok |-> FALSE, bytes |-> <<>>]

\* Fault: the probe runs again on every call.
check_7z_available_Again(checked, available, env) == Probe7z(env)

\* check_7z_available: the cached flag once checked, the probe otherwise.
check_7z_available(checked, available, env) ==
    IF checked THEN available ELSE Probe7z(env)

\* extract_entry_7z, with have7z the value of check_7z_available().
\* The record of one tool run: what was invoked and what the backend made
\* of it.
Ran(tool, arg, ok, bytes) ==
    [invoked |-> <<[tool |-> tool, arg |-> arg, ok |-> ok, out |-> bytes]>>,
     ok |-> ok, bytes |-> bytes]

extract_entry_7z(entry, have7z, o7) ==
    IF entry = <<>> THEN NoCall
    ELSE IF ~have7z THEN NoCall
    ELSE IF o7.ok /\ Len(o7.bytes) = 0 THEN Ran("7z", CleanEntry(entry), FALSE, <<>>)
    ELSE IF o7.ok THEN Ran("7z", CleanEntry(entry), TRUE, o7.bytes)
    ELSE Ran("7z", CleanEntry(entry), FALSE, <<>>)

\* Fault: the extracted path is read without the test for a symlink, so the
\* file behind the link is read.
dwarfs_extract_entry_Follow(entry, path, od) ==
    IF entry = <<>> THEN NoCall
    ELSE IF path = "" THEN NoCall
    ELSE IF ~od.tmp THEN NoCall
    ELSE IF ~od.ok THEN Ran("dwarfsextract", CleanEntry(entry), FALSE, <<>>)
    ELSE IF od.kind = "symlink" THEN Ran("dwarfsextract", CleanEntry(entry), TRUE, od.behind)
    ELSE IF od.kind = "file" THEN Ran("dwarfsextract", CleanEntry(entry), TRUE, od.bytes)
    ELSE Ran("dwarfsextract", CleanEntry(entry), FALSE, <<>>)

\* dwarfs_extract_entry, with path the value of dwarfsextract_path.
dwarfs_extract_entry(entry, path, od) ==
    IF entry = <<>> THEN NoCall
    ELSE IF path = "" THEN NoCall
    ELSE IF ~od.tmp THEN NoCall
    ELSE IF ~od.ok THEN Ran("dwarfsextract", CleanEntry(entry), FALSE, <<>>)
    ELSE IF od.kind = "symlink" THEN Ran("dwarfsextract", CleanEntry(entry), TRUE, od.bytes)
    ELSE IF od.kind = "file" THEN Ran("dwarfsextract", CleanEntry(entry), TRUE, od.bytes)
    ELSE Ran("dwarfsextract", CleanEntry(entry), FALSE, <<>>)

\* Whether extract_entry / list_archive_paths go on to the DwarFS backend.
TryDwarfs(firstOk, haveDwarfs) == ~firstOk /\ haveDwarfs

\* extract_entry of appimage-thumbnailer.c
\* Fault: the DwarFS backend is run even after 7z succeeded.
ExtractDispatch_Both(a, haveDwarfs, b) ==
    IF haveDwarfs
        THEN [invoked |-> a.invoked \o b.invoked, ok |-> a.ok \/ b.ok,
              bytes |-> IF a.ok THEN a.bytes ELSE b.bytes]
    ELSE a

\* The body of extract_entry: a = what the 7z attempt gave (NoCall when it
\* is skipped), b = what the DwarFS attempt gives if it is made.
ExtractDispatch(a, haveDwarfs, b) ==
    IF a.ok THEN a
    ELSE IF TryDwarfs(a.ok, haveDwarfs)
        THEN [invoked |-> a.invoked \o b.invoked, ok |-> b.ok, bytes |-> b.bytes]
    ELSE [invoked |-> a.invoked, ok |-> FALSE, bytes |-> <<>>]

\* Fault: 7z is run without asking check_7z_available.
extract_entry_T_Unchecked(entry, have7z, haveDwarfs, path, o7, od) ==
    IF entry = <<>> THEN NoCall
    ELSE ExtractDispatch(extract_entry_7z(entry, TRUE, o7),
                         haveDwarfs, dwarfs_extract_entry(entry, path, od))

\* extract_entry of appimage-thumbnailer.c
extract_entry_T(entry, have7z, haveDwarfs, path, o7, od) ==
    IF entry = <<>> THEN NoCall
    ELSE ExtractDispatch(IF have7z THEN extract_entry_7z(entry, have7z, o7) ELSE NoCall,
                         haveDwarfs, dwarfs_extract_entry(entry, path, od))

\* process_icon_payload of appimage-thumbnailer.c
process_icon_payload_T(bytes, normOk) == IF Len(bytes) = 0 THEN FALSE ELSE normOk

(***************************************************************************)
(* Listing                                                                 *)
(***************************************************************************)
\* "Path = a.AppImage\nPath = /myapp.desktop\nPath =
\*   usr/share/icons/myapp.png\nPath = usr/share/pixmaps/MyApp.svg\nPath =
\*   icon.svg\nPath = b.png\n"
List7zA ==
    <<80, 97, 116, 104, 32, 61, 32, 97, 46, 65, 112, 112, 73, 109, 97, 103,
      101, 10, 80, 97, 116, 104, 32, 61, 32, 47, 109, 121, 97, 112, 112, 46,
      100, 101, 115, 107, 116, 111, 112, 10, 80, 97, 116, 104, 32, 61, 32,
      117, 115, 114, 47, 115, 104, 97, 114, 101, 47, 105, 99, 111, 110, 115,
      47, 109, 121, 97, 112, 112, 46, 112, 110, 103, 10, 80, 97, 116, 104,
      32, 61, 32, 117, 115, 114, 47, 115, 104, 97, 114, 101, 47, 112, 105,
      120, 109, 97, 112, 115, 47, 77, 121, 65, 112, 112, 46, 115, 118, 103,
      10, 80, 97, 116, 104, 32, 61, 32, 105, 99, 111, 110, 46, 115, 118,
      103, 10, 80, 97, 116, 104, 32, 61, 32, 98, 46, 112, 110, 103, 10>>
List7zB == \* "Path = x.png\n Path = A.DESKTOP"
    <<80, 97, 116, 104, 32, 61, 32, 120, 46, 112, 110, 103, 10, 32, 80, 97,
      116, 104, 32, 61, 32, 65, 46, 68, 69, 83, 75, 84, 79, 80>>
List7zNone == \* "Listing\n"
    <<76, 105, 115, 116, 105, 110, 103, 10>>
\* "-rw-r--r-- 1/1 12 2024-01-01 00:00 /app.svg\nlrwxrwxrwx 1/1 8
\*   2024-01-01 00:00 .DirIcon -> app.svg\n-rw-r--r-- 1/1 9 2024-01-01
\*   00:00 b.png\n"
ListDwA ==
    <<45, 114, 119, 45, 114, 45, 45, 114, 45, 45, 32, 49, 47, 49, 32, 49,
      50, 32, 50, 48, 50, 52, 45, 48, 49, 45, 48, 49, 32, 48, 48, 58, 48,
      48, 32, 47, 97, 112, 112, 46, 115, 118, 103, 10, 108, 114, 119, 120,
      114, 119, 120, 114, 119, 120, 32, 49, 47, 49, 32, 56, 32, 50, 48, 50,
      52, 45, 48, 49, 45, 48, 49, 32, 48, 48, 58, 48, 48, 32, 46, 68, 105,
      114, 73, 99, 111, 110, 32, 45, 62, 32, 97, 112, 112, 46, 115, 118,
      103, 10, 45, 114, 119, 45, 114, 45, 45, 114, 45, 45, 32, 49, 47, 49,
      32, 57, 32, 50, 48, 50, 52, 45, 48, 49, 45, 48, 49, 32, 48, 48, 58,
      48, 48, 32, 98, 46, 112, 110, 103, 10>>
ListDwNone == \* "total 0\n"
    <<116, 111, 116, 97, 108, 32, 48, 10>>

\* One run of "7z l -slt" / "dwarfsck -l -v": exit status and stdout bytes.
Out7zList == {Failed}
             \cup {[ok |-> TRUE, bytes |-> b] : b \in {<<>>, List7zA, List7zB, List7zNone}}
OutDwList == {Failed}
             \cup {[ok |-> TRUE, bytes |-> b] : b \in {<<>>, ListDwA, ListDwNone}}

\* The captured bytes are not NUL-terminated, so the string g_strsplit sees
\* runs on into whatever follows the buffer, up to the first NUL byte.
Garbage == {<<>>, <<120>>}
TextOf(bytes, garbage) == CStr(bytes \o garbage)

NoList == [invoked |-> <<>>, ok |-> FALSE, paths |-> <<>>, crash |-> FALSE]

\* The "Path = " loop of list_archive_paths_7z / list_archive_paths.
StripAll(lines) == [i \in 1..Len(lines) |-> g_strstrip(lines[i])]
IsPathLine(l) == g_str_has_prefix(l, PathPrefix) /\ Len(l) > Len(PathPrefix)
PathsOfLines(sel) ==
    [i \in 1..Len(sel) |-> CleanEntry(SubSeq(sel[i], Len(PathPrefix) + 1, Len(sel[i])))]
ParsePathLines(text) ==
    PathsOfLines(SelectSeq(StripAll(g_strsplit(text, 10)), IsPathLine))

\* list_archive_paths_7z. An empty capture has data = NULL: g_strsplit
\* returns NULL and the loop dereferences it.
\* The record of one listing run.
Listed(tool, ok, paths, crash) ==
    [invoked |-> <<[tool |-> tool, arg |-> <<>>, ok |-> ok, out |-> paths]>>,
     ok |-> ok, paths |-> paths, crash |-> crash]
\* A listing succeeds when it holds at least one path.
ListedPaths(tool, paths) ==
    IF Len(paths) = 0 THEN Listed(tool, FALSE, <<>>, FALSE)
    ELSE Listed(tool, TRUE, paths, FALSE)

list_archive_paths_7z(l7, garbage) ==
    IF ~l7.ok THEN Listed("7z", FALSE, <<>>, FALSE)
    ELSE IF l7.bytes = <<>> THEN Listed("7z", FALSE, <<>>, TRUE)
    ELSE ListedPaths("7z", ParsePathLines(TextOf(l7.bytes, garbage)))

\* The path of one "dwarfsck -l -v" line: everything from the 6th
\* space-separated non-empty field on, cut at " -> ", one leading '/'
\* removed, trailing whitespace removed; <<>> when the line yields none.
CutAt(path, arrow) == IF arrow > 0 THEN SubSeq(path, 1, arrow - 1) ELSE path
CutArrow(path) == CutAt(path, g_strstr(path, Arrow))
ChompClean(cut) == IF cut = <<>> THEN <<>> ELSE g_strchomp(CleanEntry(cut))
\* starts = the indexes at which the space-separated fields of line begin.
PathOfFields(line, starts) ==
    IF Cardinality(starts) < 6 THEN <<>>
    ELSE ChompClean(CutArrow(SubSeq(line, KthOf(starts, 6), Len(line))))
DwarfsPathOfLine(line) ==
    PathOfFields(line, {i \in 1..Len(line) :
                          line[i] # 32 /\ (i = 1 \/ line[i - 1] = 32)})

NonEmpty(p) == p # <<>>
DwarfsPathsOf(lines) == [i \in 1..Len(lines) |-> DwarfsPathOfLine(lines[i])]
ParseDwarfsLines(text) == SelectSeq(DwarfsPathsOf(g_strsplit(text, 10)), NonEmpty)

\* dwarfs_list_paths, with path the value of dwarfsck_path.
dwarfs_list_paths(path, ld, garbage) ==
    IF path = "" THEN NoList
    ELSE IF ~ld.ok THEN Listed("dwarfsck", FALSE, <<>>, FALSE)
    ELSE IF ld.bytes = <<>> THEN Listed("dwarfsck", FALSE, <<>>, TRUE)
    ELSE ListedPaths("dwarfsck", ParseDwarfsLines(TextOf(ld.bytes, garbage)))

\* list_archive_paths of appimage-thumbnailer.c
\* The body of list_archive_paths: a = what the 7z attempt gave (NoList when
\* it is skipped), b = what the DwarFS attempt gives if it is made.
ListDispatch(a, haveDwarfs, b) ==
    IF a.ok \/ a.crash THEN a
    ELSE IF TryDwarfs(a.ok, haveDwarfs)
        THEN [invoked |-> a.invoked \o b.invoked, ok |-> b.ok,
              paths |-> b.paths, crash |-> b.crash]
    ELSE a

list_archive_paths_T(have7z, haveDwarfs, path, l7, ld, garbage) ==
    ListDispatch(IF have7z THEN list_archive_paths_7z(l7, garbage) ELSE NoList,
                 haveDwarfs, dwarfs_list_paths(path, ld, garbage))

\* path_is_root_file
path_is_root_file(path) == strchr(path, 47) = 0

\* find_root_with_extension: the path found, <<>> for NULL.
\* The first element of a sequence whose index is in hit, <<>> when none.
FirstAt(seq, hit) == IF hit = {} THEN <<>> ELSE seq[SetMin(hit)]
\* dot = strrchr(path, '.').
ExtensionIs(path, dot, extension) ==
    dot > 0 /\ StrCaseEq(SubSeq(path, dot, Len(path)), extension)
find_root_with_extension(paths, extension) ==
    FirstAt(paths, {i \in 1..Len(paths) :
                      /\ path_is_root_file(paths[i])
                      /\ ExtensionIs(paths[i], strrchr(paths[i], 46), extension)})

(***************************************************************************)
(* main.c: dispatcher, descriptor parsing and icon search                  *)
(***************************************************************************)
DesktopMyapp == \* "[Desktop Entry]\n# Icon=no\nicon=myapp\n"
    <<91, 68, 101, 115, 107, 116, 111, 112, 32, 69, 110, 116, 114, 121, 93, 10,
      35, 32, 73, 99, 111, 110, 61, 110, 111, 10, 105, 99, 111, 110, 61, 109, 121,
      97, 112, 112, 10>>
DesktopNoIcon == \* "Name=x\n"
    <<78, 97, 109, 101, 61, 120, 10>>
DesktopSlashPng == \* "Icon=/b.png"
    <<73, 99, 111, 110, 61, 47, 98, 46, 112, 110, 103>>

\* What "7z e -so" can deliver for the descriptor entry.
Out7zDesktop ==
    {Failed}
    \cup {[ok |-> TRUE, bytes |-> b] :
            b \in {<<>>, DesktopMyapp, DesktopNoIcon, DesktopSlashPng}}

\* extract_entry of main.c
extract_entry_M(entry, o7) ==
    IF entry = <<>> THEN NoCall
    ELSE IF CleanEntry(entry) = DotSlash THEN NoCall
    ELSE Ran("7z", CleanEntry(entry), o7.ok, IF o7.ok THEN o7.bytes ELSE <<>>)

\* list_archive_paths of main.c
list_archive_paths_M(l7, garbage) == list_archive_paths_7z(l7, garbage)

\* process_icon_payload of main.c: [ok, next], next = <<>> for NULL.
PayloadResult_M(ptr, normOk) ==
    IF ptr.ok THEN [ok |-> FALSE, next |-> ptr.text]
    ELSE [ok |-> normOk, next |-> <<>>]
process_icon_payload_M(bytes, normOk) ==
    PayloadResult_M(is_pointer_candidate_M(bytes), normOk)

\* find_first_desktop_entry: the path found, <<>> for NULL.
\* ext = g_strrstr(path, ".desktop").
SuffixIsDesktop(path, ext) ==
    ext > 0 /\ StrCaseEq(SubSeq(path, ext, Len(path)), DesktopSuffix)
find_first_desktop_entry(listing) ==
    FirstAt(listing, {i \in 1..Len(listing) :
                        SuffixIsDesktop(listing[i], g_strrstr(listing[i], DesktopSuffix))})

\* extract_icon_key: [found, key]
IsIconLine(l) == l # <<>> /\ l[1] # 35 /\ StrNCaseEq(l, IconPrefix)
IconKeyOf(line) ==
    IF line = <<>> THEN [found |-> FALSE, key |-> <<>>]
    ELSE [found |-> TRUE, key |-> SubSeq(line, Len(IconPrefix) + 1, Len(line))]
FirstIconLine(stripped) ==
    FirstAt(stripped, {i \in 1..Len(stripped) : IsIconLine(stripped[i])})
extract_icon_key(text) == IconKeyOf(FirstIconLine(StripAll(g_strsplit(text, 10))))

\* icon_basename
SkipSlashes(trimmed, keep) ==
    IF keep = {} THEN <<>> ELSE SubSeq(trimmed, SetMin(keep), Len(trimmed))
NoLeadingSlashes(trimmed) ==
    SkipSlashes(trimmed, {i \in 1..Len(trimmed) : trimmed[i] # 47})
icon_basename(icon_name) == NoLeadingSlashes(g_strstrip(icon_name))

\* remove_extension
CutBefore(name, dot) == IF dot = 0 THEN name ELSE SubSeq(name, 1, dot - 1)
remove_extension(name) == CutBefore(name, strrchr(name, 46))

\* entry_basename_matches
StemIs(basename, needle, ext) ==
    /\ Len(basename) > Len(ext)
    /\ StrCaseEq(SubSeq(basename, 1, Len(basename) - Len(ext)), needle)
entry_basename_matches(entry, needle, ext) ==
    g_str_has_suffix(entry, ext) /\ StemIs(g_path_get_basename(entry), needle, ext)

\* try_process_entry_variants: the entries it passes to try_process_entry_once,
\* in order, until one succeeds.
\* Fault: the second candidate is left out when it repeats the first.
Candidates_NoRepeat(trimmed, c1) ==
    IF g_str_has_prefix(c1, DotSlash) THEN <<trimmed, c1>>
    ELSE IF c1 = trimmed THEN <<trimmed, DotSlash \o c1>>
    ELSE <<trimmed, c1, DotSlash \o c1>>

\* candidates[0..2] for trimmed = g_strstrip(entry), c1 = trimmed without
\* one leading '/'.
Candidates(trimmed, c1) ==
    IF g_str_has_prefix(c1, DotSlash) THEN <<trimmed, c1>>
    ELSE <<trimmed, c1, DotSlash \o c1>>
VariantsOfTrimmed(trimmed) == Candidates(trimmed, CleanEntry(trimmed))
VariantsOf(entry) ==
    IF entry = <<>> THEN <<>> ELSE VariantsOfTrimmed(g_strstrip(entry))

\* try_icon_from_listing: the names it passes to try_process_entry_variants
\* before the theme-root search.
WithExtensions(stem) == [i \in 1..Len(extensions) |-> stem \o extensions[i]]
DirectCandidates(normalized) ==
    <<normalized>> \o WithExtensions(remove_extension(normalized))

\* search_icon_roots: the listing entries it passes to
\* try_process_entry_variants, in the order of its three nested loops.
\* The k-th iteration of the three nested loops over n listing entries:
\* root index r, listing index p, extension index e.
Iteration(k, n) ==
    [r |-> ((k - 1) \div (n * Len(extensions))) + 1,
     p |-> (((k - 1) \div Len(extensions)) % n) + 1,
     e |-> ((k - 1) % Len(extensions)) + 1]
Iterations(n) ==
    [k \in 1..(Len(roots) * n * Len(extensions)) |-> Iteration(k, n)]
RootMatch(listing, needle, t) ==
    /\ g_str_has_prefix(listing[t.p], roots[t.r])
    /\ entry_basename_matches(listing[t.p], needle, extensions[t.e])
EntriesAt(listing, sel) == [i \in 1..Len(sel) |-> listing[sel[i].p]]

\* Fault: the search stops at the first matching entry.
FirstOnly(seq) == IF seq = <<>> THEN <<>> ELSE <<seq[1]>>
RootMatchesOf_First(listing, needle, all) ==
    LET Match(t) == RootMatch(listing, needle, t)
    IN  FirstOnly(EntriesAt(listing, SelectSeq(all, Match)))

RootMatchesOf(listing, needle, all) ==
    LET Match(t) == RootMatch(listing, needle, t)
    IN  EntriesAt(listing, SelectSeq(all, Match))
RootMatches(listing, icon_root) ==
    RootMatchesOf(listing, remove_extension(g_path_get_basename(icon_root)),
                  Iterations(Len(listing)))

RECURSIVE Flatten(_)
Flatten(ss) == IF ss = <<>> THEN <<>> ELSE Head(ss) \o Flatten(Tail(ss))

VariantsOfAll(names) == Flatten([i \in 1..Len(names) |-> VariantsOf(names[i])])

\* The entries try_icon_from_listing passes to try_process_entry_once, in
\* order, as long as none succeeds: the direct part, then the theme roots.
DirectWork(normalized) == VariantsOfAll(DirectCandidates(normalized))
RootWork(listing, normalized) == VariantsOfAll(RootMatches(listing, normalized))
Worklist(listing, normalized) == DirectWork(normalized) \o RootWork(listing, normalized)

(***************************************************************************)
(* Inputs: containers and installed tools                                  *)
(***************************************************************************)
RECURSIVE ToLE(_, _)
ToLE(n, k) == IF k = 0 THEN <<>> ELSE <<n % 256>> \o ToLE(n \div 256, k - 1)
ToBE(n, k) == [i \in 1..k |-> ToLE(n, k)[k + 1 - i]]
Zeros(k) == [i \in 1..k |-> 0]

\* A 64-byte ELF64 header with the AppImage marker, followed by the section
\* headers (zeros) and the payload bytes.
Elf64(elf_data, shoff, shentsize, shnum, payload) ==
    LET enc(n, k) == IF elf_data = 2 THEN ToBE(n, k) ELSE ToLE(n, k)
    IN  ELF_MAGIC \o <<2, elf_data, 1, 0>> \o AI_MAGIC \o <<2>> \o Zeros(5)
        \o Zeros(24) \o enc(shoff, 8) \o Zeros(10)
        \o enc(shentsize, 2) \o enc(shnum, 2) \o Zeros(2)
        \o Zeros(shoff + shentsize * shnum - 64) \o payload

ContainerSqfs == Elf64(1, 64, 2, 2, SQFS_MAGIC \o Zeros(4))
ContainerDwarfs == Elf64(1, 64, 2, 2, DWARFS_MAGIC \o Zeros(2))
ContainerOther == Elf64(2, 64, 2, 2, Zeros(8))
Containers == {ContainerSqfs, ContainerDwarfs, ContainerOther}

Banner1602 == \* "7-Zip [64] 16.02"
    <<55, 45, 90, 105, 112, 32, 91, 54, 52, 93, 32, 49, 54, 46, 48, 50>>
Banner2301 == \* "7-Zip (z) 23.01 (x64)"
    <<55, 45, 90, 105, 112, 32, 40, 122, 41, 32, 50, 51, 46, 48, 49, 32, 40, 120, 54, 52, 41>>

Env7z ==
    {[at |-> {}, spawn |-> TRUE, banner |-> <<>>],
     [at |-> {"path"}, spawn |-> TRUE, banner |-> Banner1602],
     [at |-> {"path"}, spawn |-> TRUE, banner |-> Banner2301]}

\* Where dwarfsextract and dwarfsck are executable.
EnvDwarfs ==
    {[extractAt |-> {}, ckAt |-> {}],
     [extractAt |-> {"path"}, ckAt |-> {}],
     [extractAt |-> {"bundled"}, ckAt |-> {"adjacent", "path"}]}

(***************************************************************************)
(* State                                                                   *)
(***************************************************************************)
VARIABLES
    prog,                   \* which program runs: "thumbnailer" or "main"
    container,              \* bytes of the AppImage file
    env7z, envDwarfs,       \* installed tools
    pc,                     \* position in main()
    exit,                   \* "running", "EXIT_SUCCESS", "EXIT_FAILURE", "SIGSEGV"
    sevenz_checked, sevenz_available,
    tools_checked, dwarfsextract_path, dwarfsck_path, tools_available_cached,
    current, depth,         \* locals of the pointer-following loop
    paths,                  \* the listing held by main / try_desktop_fallback
    icon, work, pos,        \* try_icon_from_listing: icon name, entries to try, next one
    \* observations of the run
    last,                   \* the most recent dispatcher call
    chainCalls,             \* extract_entry calls made by the latest run of the loop
    chainLen,               \* pointers followed by the latest run of the loop
    chainRet,               \* what the latest run of the loop returned
    dirIconRet,             \* what the run of the loop on .DirIcon returned
    fallbackLog,            \* entries passed to extract_entry by try_desktop_fallback
    nList,                  \* calls of list_archive_paths
    used,                   \* tools run so far to extract or list
    normFailDirect,         \* the normalizer failed on data reached from .DirIcon
    \* squashfs-extract.c
    envSquashfs,            \* where unsquashfs is executable
    tool_checked, unsquashfs_path, tool_available_cached,
    \* calls of single functions
    call,                   \* the most recent call: function, argument, results
    discovery               \* how often each tool kind ran its discovery

libVars == <<envSquashfs, tool_checked, unsquashfs_path, tool_available_cached, call,
             discovery>>
progVars == <<prog, container, env7z, envDwarfs, libVars>>
cacheVars == <<sevenz_checked, sevenz_available, tools_checked, dwarfsextract_path,
               dwarfsck_path, tools_available_cached>>
iconVars == <<icon, work, pos>>
chainVars == <<chainCalls, chainLen, chainRet, dirIconRet>>
vars == <<prog, container, env7z, envDwarfs, pc, exit, sevenz_checked, sevenz_available,
          tools_checked, dwarfsextract_path, dwarfsck_path, tools_available_cached,
          current, depth, paths, icon, work, pos, last, chainCalls, chainLen,
          chainRet, dirIconRet, fallbackLog, nList, used, normFailDirect,
          envSquashfs, tool_checked, unsquashfs_path, tool_available_cached, call,
          discovery>>

NoLast == [op |-> "none", entry |-> <<>>, invoked |-> <<>>, ok |-> FALSE,
           bytes |-> <<>>, class |-> "none", norm |-> "none"]

ToolsOf(invoked) == {invoked[i].tool : i \in 1..Len(invoked)}

\* again = the function found its static flag set: it was called before.
NothingFound ==
    [tmp |-> FALSE, ok |-> FALSE, kind |-> "none", bytes |-> <<>>, behind |-> <<>>]
NoCallYet ==
    [fn |-> "none", arg |-> <<>>, ret |-> "none", out |-> <<>>, tmp |-> "none",
     again |-> FALSE, invoked |-> <<>>, fs |-> {}, parent |-> <<>>,
     found |-> NothingFound, listed |-> <<>>, child |-> "none", status |-> "none",
     assigned |-> FALSE, turns |-> 0]
NoDiscovery == [sevenz |-> 0, dwarfs |-> 0, squashfs |-> 0]

\* The static variables of the three translation units before any call, and
\* nothing observed yet.
InitStatics ==
    /\ sevenz_checked = FALSE
    /\ sevenz_available = FALSE
    /\ tools_checked = FALSE
    /\ dwarfsextract_path = ""
    /\ dwarfsck_path = ""
    /\ tools_available_cached = FALSE
    /\ tool_checked = FALSE
    /\ unsquashfs_path = ""
    /\ tool_available_cached = FALSE
    /\ call = NoCallYet
    /\ discovery = NoDiscovery
InitLocals ==
    /\ exit = "running"
    /\ current = <<>>
    /\ depth = 0
    /\ paths = <<>>
    /\ icon = <<>>
    /\ work = <<>>
    /\ pos = 0
    /\ last = NoLast
    /\ chainCalls = 0
    /\ chainLen = 0
    /\ chainRet = "none"
    /\ dirIconRet = "none"
    /\ fallbackLog = <<>>
    /\ nList = 0
    /\ used = {}
    /\ normFailDirect = FALSE

Init ==
    /\ prog \in {"thumbnailer", "main"}
    /\ container \in Containers
    /\ env7z \in Env7z
    \* main.c knows no DwarFS tools: one environment stands for all
    /\ envDwarfs \in IF prog = "main" THEN {[extractAt |-> {}, ckAt |-> {}]}
                     ELSE EnvDwarfs
    \* neither program links squashfs-extract.c
    /\ envSquashfs = {}
    /\ pc = "start"
    /\ InitStatics
    /\ InitLocals

(***************************************************************************)
(* main of appimage-thumbnailer.c                                          *)
(***************************************************************************)
\* The tool check of main: TRUE when the run goes on.
HaveBackend_T(have_7z, have_dwarfs) == have_7z \/ have_dwarfs

\* main, up to the first call of process_entry_following_symlinks.
T_Start ==
    /\ prog = "thumbnailer" /\ pc = "start"
    /\ \E have_7z \in {check_7z_available(sevenz_checked, sevenz_available, env7z)},
          extractPath \in {find_tool(envDwarfs.extractAt)},
          ckPath \in {find_tool(envDwarfs.ckAt)} :
        /\ sevenz_checked' = TRUE
        /\ sevenz_available' = have_7z
        /\ tools_checked' = TRUE
        /\ dwarfsextract_path' = extractPath
        /\ dwarfsck_path' = ckPath
        /\ tools_available_cached' = (extractPath # "" /\ ckPath # "")
        /\ IF HaveBackend_T(have_7z, extractPath # "" /\ ckPath # "")
             THEN /\ pc' = "diricon"
                  /\ current' = DirIcon
                  /\ exit' = exit
             ELSE /\ pc' = "done"
                  /\ current' = current
                  /\ exit' = "EXIT_FAILURE"
    /\ depth' = 0
    /\ UNCHANGED <<progVars, paths, iconVars, last, chainVars, fallbackLog, nList, used,
                   normFailDirect>>

\* Fault: the loop condition lets one more iteration through.
ChainContinues_T_OneMore(d) == d < MAX_SYMLINK_DEPTH + 1

\* The loop condition of process_entry_following_symlinks.
ChainContinues_T(d) == d < MAX_SYMLINK_DEPTH

\* Fault: main lists the archive whatever the run on .DirIcon returned.
AfterChain_T_AlwaysList(site, result, png) ==
    IF site = "diricon" THEN [pc |-> "list", exit |-> "running", current |-> <<>>]
    ELSE IF result THEN [pc |-> "done", exit |-> "EXIT_SUCCESS", current |-> <<>>]
    ELSE IF site = "svg" /\ png # <<>>
        THEN [pc |-> "png", exit |-> "running", current |-> png]
    ELSE [pc |-> "done", exit |-> "EXIT_FAILURE", current |-> <<>>]

\* Fault: main gives up when the run on .DirIcon fails.
AfterChain_T_NoFallback(site, result, png) ==
    IF result THEN [pc |-> "done", exit |-> "EXIT_SUCCESS", current |-> <<>>]
    ELSE IF site = "svg" /\ png # <<>>
        THEN [pc |-> "png", exit |-> "running", current |-> png]
    ELSE [pc |-> "done", exit |-> "EXIT_FAILURE", current |-> <<>>]

\* Fault: main tries the PNG icon whatever the run on the SVG icon returned.
AfterChain_T_BothTried(site, result, png) ==
    IF site = "svg" /\ png # <<>> THEN [pc |-> "png", exit |-> "running", current |-> png]
    ELSE IF result THEN [pc |-> "done", exit |-> "EXIT_SUCCESS", current |-> <<>>]
    ELSE IF site = "diricon" THEN [pc |-> "list", exit |-> "running", current |-> <<>>]
    ELSE [pc |-> "done", exit |-> "EXIT_FAILURE", current |-> <<>>]

\* Fault: main lists the archive again to look for the PNG icon.
AfterChain_T_Relist(site, result, png) ==
    IF result THEN [pc |-> "done", exit |-> "EXIT_SUCCESS", current |-> <<>>]
    ELSE IF site \in {"diricon", "svg"}
        THEN [pc |-> "list", exit |-> "running", current |-> <<>>]
    ELSE [pc |-> "done", exit |-> "EXIT_FAILURE", current |-> <<>>]

\* Where main goes when the loop run started at site returns result;
\* png = find_root_with_extension(paths, ".png").
AfterChain_T(site, result, png) ==
    IF result THEN [pc |-> "done", exit |-> "EXIT_SUCCESS", current |-> <<>>]
    ELSE IF site = "diricon" THEN [pc |-> "list", exit |-> "running", current |-> <<>>]
    ELSE IF site = "svg" /\ png # <<>>
        THEN [pc |-> "png", exit |-> "running", current |-> png]
    ELSE [pc |-> "done", exit |-> "EXIT_FAILURE", current |-> <<>>]

\* What one call of extract_entry and the handling of its result are
\* observed to do.
Observed(entry, r, isPointer, normOk) ==
    [op |-> "extract", entry |-> entry, invoked |-> r.invoked, ok |-> r.ok,
     bytes |-> r.bytes,
     class |-> IF ~r.ok THEN "none" ELSE IF isPointer THEN "pointer" ELSE "data",
     norm |-> IF ~r.ok \/ isPointer THEN "none" ELSE IF normOk THEN "ok" ELSE "fail"]

\* Observation of a run of the loop: calls made and pointers followed so
\* far, counted from the iteration at depth 0, and the value returned.
CallsAfter(d, calls) == IF d = 0 THEN 1 ELSE calls + 1
LenAfter(d, len, followed) == (IF d = 0 THEN 0 ELSE len) + (IF followed THEN 1 ELSE 0)
Returned(result) == IF result THEN "TRUE" ELSE "FALSE"

\* The outcome drawn for a tool that is not run stands for all of them, and
\* so do the bytes drawn to follow an output that is not parsed.
Drawn(outcome, default, tool, r) == outcome = default \/ tool \in ToolsOf(r.invoked)
Parsed(outcome, tool, r) ==
    tool \in ToolsOf(r.invoked) /\ outcome.ok /\ outcome.bytes # <<>>

\* One iteration of the loop of process_entry_following_symlinks, and the
\* return to main when the iteration ends the loop.
T_ChainStep ==
    /\ prog = "thumbnailer" /\ pc \in {"diricon", "svg", "png"}
    /\ ChainContinues_T(depth)
    /\ \E o7 \in Out7z, od \in OutDwarfs :
       \E r \in {extract_entry_T(current,
                     check_7z_available(sevenz_checked, sevenz_available, env7z),
                     tools_available_cached, dwarfsextract_path, o7, od)} :
       /\ Drawn(o7, Failed, "7z", r)
       /\ Drawn(od, NoTmpDir, "dwarfsextract", r)
       /\ \E ptr \in {is_pointer_candidate_T(r.bytes)}, normOk \in NormResults(r.bytes) :
          \E ok \in {process_icon_payload_T(r.bytes, normOk)} :
          \E after \in {AfterChain_T(pc, r.ok /\ ~ptr.ok /\ ok,
                                     find_root_with_extension(paths, ExtPng))} :
            /\ last' = Observed(current, r, ptr.ok, ok)
            /\ used' = used \cup ToolsOf(r.invoked)
            /\ chainCalls' = CallsAfter(depth, chainCalls)
            /\ chainLen' = LenAfter(depth, chainLen, r.ok /\ ptr.ok)
            /\ normFailDirect' =
                   (normFailDirect \/ (pc = "diricon" /\ r.ok /\ ~ptr.ok /\ ~ok))
            /\ IF r.ok /\ ptr.ok /\ ChainContinues_T(depth + 1)
                 THEN /\ current' = ptr.text
                      /\ depth' = depth + 1
                      /\ chainRet' = "running"
                      /\ UNCHANGED <<pc, exit, dirIconRet>>
                 ELSE /\ current' = after.current
                      /\ depth' = 0
                      /\ pc' = after.pc
                      /\ exit' = after.exit
                      /\ chainRet' = Returned(r.ok /\ ~ptr.ok /\ ok)
                      /\ dirIconRet' = IF pc = "diricon"
                                         THEN Returned(r.ok /\ ~ptr.ok /\ ok)
                                       ELSE dirIconRet
    /\ UNCHANGED <<progVars, cacheVars, paths, iconVars, nList, fallbackLog>>

\* main: list_archive_paths and the choice of the first fallback candidate.
T_List ==
    /\ prog = "thumbnailer" /\ pc = "list"
    /\ \E l7 \in Out7zList, ld \in OutDwList, g \in Garbage :
       \E r \in {list_archive_paths_T(
                     check_7z_available(sevenz_checked, sevenz_available, env7z),
                     tools_available_cached, dwarfsck_path, l7, ld, g)} :
       /\ Drawn(l7, Failed, "7z", r)
       /\ Drawn(ld, Failed, "dwarfsck", r)
       /\ g = <<>> \/ Parsed(l7, "7z", r) \/ Parsed(ld, "dwarfsck", r)
       /\ \E svg \in {find_root_with_extension(r.paths, ExtSvg)},
             png \in {find_root_with_extension(r.paths, ExtPng)} :
            /\ last' = [op |-> "list", entry |-> <<>>, invoked |-> r.invoked,
                        ok |-> r.ok, bytes |-> <<>>, class |-> "none", norm |-> "none"]
            /\ used' = used \cup ToolsOf(r.invoked)
            /\ nList' = nList + 1
            /\ paths' = r.paths
            /\ IF r.crash
                 THEN pc' = "done" /\ exit' = "SIGSEGV" /\ current' = <<>>
               ELSE IF r.ok /\ svg # <<>>
                 THEN pc' = "svg" /\ exit' = exit /\ current' = svg
               ELSE IF r.ok /\ png # <<>>
                 THEN pc' = "png" /\ exit' = exit /\ current' = png
               ELSE pc' = "done" /\ exit' = "EXIT_FAILURE" /\ current' = <<>>
    /\ depth' = 0
    /\ UNCHANGED <<progVars, cacheVars, iconVars, chainVars, fallbackLog, normFailDirect>>

(***************************************************************************)
(* main of main.c                                                          *)
(***************************************************************************)
\* main, up to the call of try_dir_icon.
M_Start ==
    /\ prog = "main" /\ pc = "start"
    /\ IF g_find_program_in_path(env7z.at)
         THEN pc' = "diricon" /\ current' = DirIcon /\ exit' = exit
         ELSE pc' = "done" /\ current' = current /\ exit' = "EXIT_FAILURE"
    /\ depth' = 0
    /\ UNCHANGED <<progVars, cacheVars, paths, iconVars, last, chainVars, fallbackLog,
                   nList, used, normFailDirect>>

\* The loop condition of try_dir_icon (current != NULL is decided in the step).
ChainContinues_M(d) == d < MAX_DIRICON_CHAIN

\* One iteration of the loop of try_dir_icon, and the return to main when
\* the iteration ends the loop.
M_DirIconStep ==
    /\ prog = "main" /\ pc = "diricon"
    /\ ChainContinues_M(depth)
    /\ \E o7 \in Out7z :
       \E r \in {extract_entry_M(current, o7)} :
       \E normOk \in NormResults(r.bytes) :
       \E p \in {process_icon_payload_M(r.bytes, normOk)} :
            /\ last' = Observed(current, r, p.next # <<>>, p.ok)
            /\ used' = used \cup ToolsOf(r.invoked)
            /\ chainCalls' = CallsAfter(depth, chainCalls)
            /\ chainLen' = LenAfter(depth, chainLen, r.ok /\ ~p.ok /\ p.next # <<>>)
            /\ normFailDirect' =
                   (normFailDirect \/ (r.ok /\ ~p.ok /\ p.next = <<>>))
            /\ IF r.ok /\ ~p.ok /\ p.next # <<>> /\ ChainContinues_M(depth + 1)
                 THEN /\ current' = p.next
                      /\ depth' = depth + 1
                      /\ chainRet' = "running"
                      /\ UNCHANGED <<pc, exit, dirIconRet>>
                 ELSE /\ current' = <<>>
                      /\ depth' = 0
                      /\ pc' = IF r.ok /\ p.ok THEN "done" ELSE "desktop"
                      /\ exit' = IF r.ok /\ p.ok THEN "EXIT_SUCCESS" ELSE exit
                      /\ chainRet' = Returned(r.ok /\ p.ok)
                      /\ dirIconRet' = Returned(r.ok /\ p.ok)
    /\ UNCHANGED <<progVars, cacheVars, paths, iconVars, nList, fallbackLog>>

\* The icon key try_desktop_fallback gets from the extracted descriptor;
\* r = what extract_entry gave, crash = whether the run has crashed.
IconKeyFrom(r, crash, garbage) ==
    IF r.ok /\ ~crash THEN extract_icon_key(TextOf(r.bytes, garbage))
    ELSE [found |-> FALSE, key |-> <<>>]

\* The entries try_icon_from_listing is going to try for the key k.
WorkFor(listing, k) ==
    IF k.found THEN Worklist(listing, icon_basename(k.key)) ELSE <<>>

\* try_desktop_fallback, up to the call of try_icon_from_listing.
M_DesktopFallback ==
    /\ prog = "main" /\ pc = "desktop"
    /\ \E l7 \in Out7zList, g \in Garbage :
       \E l \in {list_archive_paths_M(l7, g)} :
       /\ g = <<>> \/ Parsed(l7, "7z", l)
       /\ \E desktop_entry \in {find_first_desktop_entry(l.paths)} :
          \E o7 \in Out7zDesktop, g2 \in Garbage :
          \E r \in {IF l.ok /\ desktop_entry # <<>>
                      THEN extract_entry_M(desktop_entry, o7) ELSE NoCall} :
          /\ Drawn(o7, Failed, "7z", r)
          /\ g2 = <<>> \/ Parsed(o7, "7z", r)
          /\ \E crash \in {l.crash \/ (r.ok /\ r.bytes = <<>>)} :
             \E k \in {IconKeyFrom(r, crash, g2)} :
             \E todo \in {WorkFor(l.paths, k)} :
                /\ nList' = nList + 1
                /\ paths' = l.paths
                /\ used' = used \cup ToolsOf(l.invoked) \cup ToolsOf(r.invoked)
                /\ fallbackLog' = IF l.ok /\ desktop_entry # <<>>
                                    THEN <<desktop_entry>> ELSE <<>>
                /\ last' = IF l.ok /\ desktop_entry # <<>>
                             THEN [op |-> "extract", entry |-> desktop_entry,
                                   invoked |-> r.invoked, ok |-> r.ok,
                                   bytes |-> r.bytes, class |-> "none",
                                   norm |-> "none"]
                             ELSE [op |-> "list", entry |-> <<>>,
                                   invoked |-> l.invoked, ok |-> l.ok, bytes |-> <<>>,
                                   class |-> "none", norm |-> "none"]
                /\ IF crash
                     THEN /\ pc' = "done" /\ exit' = "SIGSEGV"
                          /\ UNCHANGED iconVars
                   ELSE IF k.found /\ Len(todo) > 0
                     THEN /\ pc' = "icon" /\ exit' = exit
                          /\ icon' = icon_basename(k.key) /\ work' = todo /\ pos' = 1
                   ELSE /\ pc' = "done" /\ exit' = "EXIT_FAILURE"
                        /\ UNCHANGED iconVars
    /\ UNCHANGED <<progVars, cacheVars, current, depth, chainVars, normFailDirect>>

\* One call of try_process_entry_once made by try_icon_from_listing or
\* search_icon_roots (through try_process_entry_variants), and the return to
\* main when it succeeds or was the last one.
M_TryOnce ==
    /\ prog = "main" /\ pc = "icon"
    /\ \E o7 \in Out7z :
       \E r \in {extract_entry_M(work[pos], o7)} :
       \E normOk \in NormResults(r.bytes) :
       \E p \in {process_icon_payload_M(r.bytes, normOk)} :
            /\ last' = Observed(work[pos], r, p.next # <<>>, p.ok)
            /\ used' = used \cup ToolsOf(r.invoked)
            /\ fallbackLog' = Append(fallbackLog, work[pos])
            /\ IF r.ok /\ p.ok
                 THEN pc' = "done" /\ exit' = "EXIT_SUCCESS" /\ pos' = pos
               ELSE IF pos < Len(work)
                 THEN pc' = pc /\ exit' = exit /\ pos' = pos + 1
               ELSE pc' = "done" /\ exit' = "EXIT_FAILURE" /\ pos' = pos
    /\ UNCHANGED <<progVars, cacheVars, current, depth, paths, icon, work, chainVars,
                   nList, normFailDirect>>

Next ==
    \/ T_Start \/ T_ChainStep \/ T_List
    \/ M_Start \/ M_DirIconStep \/ M_DesktopFallback \/ M_TryOnce

Spec == Init /\ [][Next]_vars

(***************************************************************************)
(* The availability probes, called in any order while tools come and go    *)
(***************************************************************************)
\* A 7z that is in PATH while pipe() or fork() fails.
Env7zNoSpawn == [at |-> {"path"}, spawn |-> FALSE, banner |-> <<>>]
\* 7z installed in the bundled directory and nowhere else.
Env7zBundled == [at |-> {"bundled"}, spawn |-> TRUE, banner |-> Banner2301]
EnvSquashfs == {{}, {"adjacent"}, {"bundled", "path"}}

\* find_unsquashfs: the first location that holds an executable unsquashfs.
find_unsquashfs(at) == FirstLocation({i \in 1..Len(Locations) : Locations[i] \in at})

\* Fault: every call searches again.
init_tool_Again(checked, path, available, at) ==
    [path |-> find_unsquashfs(at), available |-> find_unsquashfs(at) # "", searched |-> 1]

\* init_tool: unsquashfs_path and tool_available_cached afterwards, and
\* whether find_unsquashfs ran.
init_tool(checked, path, available, at) ==
    IF checked THEN [path |-> path, available |-> available, searched |-> 0]
    ELSE [path |-> find_unsquashfs(at), available |-> find_unsquashfs(at) # "",
          searched |-> 1]

\* Fault: the paths are looked up again on every call.
init_tool_paths_Again(checked, extract, ck, available, env) ==
    [extract |-> find_tool(env.extractAt), ck |-> find_tool(env.ckAt),
     available |-> find_tool(env.extractAt) # "" /\ find_tool(env.ckAt) # "",
     searched |-> 1]

\* init_tool_paths: dwarfsextract_path and dwarfsck_path afterwards, and
\* whether find_tool ran.
init_tool_paths(checked, extract, ck, available, env) ==
    IF checked
        THEN [extract |-> extract, ck |-> ck, available |-> available, searched |-> 0]
    ELSE [extract |-> find_tool(env.extractAt), ck |-> find_tool(env.ckAt),
          available |-> find_tool(env.extractAt) # "" /\ find_tool(env.ckAt) # "",
          searched |-> 1]

LibInit ==
    /\ prog = "library"
    /\ container = <<>>
    /\ env7z \in Env7z \cup {Env7zNoSpawn, Env7zBundled}
    /\ envDwarfs \in EnvDwarfs
    /\ envSquashfs \in EnvSquashfs
    /\ pc = "library"
    /\ InitStatics
    /\ InitLocals

runVars == <<prog, container, pc, exit, current, depth, paths, iconVars, last, chainVars,
             fallbackLog, nList, used, normFailDirect>>
sevenzVars == <<sevenz_checked, sevenz_available>>
dwarfsVars == <<tools_checked, dwarfsextract_path, dwarfsck_path, tools_available_cached>>
squashfsVars == <<tool_checked, unsquashfs_path, tool_available_cached>>
envVars == <<env7z, envDwarfs, envSquashfs>>

\* A tool is installed or removed between two calls.
L_EnvChange ==
    /\ prog = "library"
    /\ env7z' \in Env7z \cup {Env7zNoSpawn, Env7zBundled}
    /\ envDwarfs' \in EnvDwarfs
    /\ envSquashfs' \in EnvSquashfs
    /\ UNCHANGED <<runVars, sevenzVars, dwarfsVars, squashfsVars, call, discovery>>

L_check_7z_available ==
    /\ prog = "library"
    /\ \E v \in {check_7z_available(sevenz_checked, sevenz_available, env7z)} :
        /\ sevenz_checked' = TRUE
        /\ sevenz_available' = v
        /\ call' = [NoCallYet EXCEPT !.fn = "check_7z_available", !.ret = v,
                                     !.again = sevenz_checked]
    /\ discovery' = [discovery EXCEPT !.sevenz = @ + (IF sevenz_checked THEN 0 ELSE 1)]
    /\ UNCHANGED <<runVars, envVars, dwarfsVars, squashfsVars>>

L_dwarfs_tools_available ==
    /\ prog = "library"
    /\ \E t \in {init_tool_paths(tools_checked, dwarfsextract_path, dwarfsck_path,
                                 tools_available_cached, envDwarfs)} :
        /\ tools_checked' = TRUE
        /\ dwarfsextract_path' = t.extract
        /\ dwarfsck_path' = t.ck
        /\ tools_available_cached' = t.available
        /\ call' = [NoCallYet EXCEPT !.fn = "dwarfs_tools_available",
                                     !.ret = t.available, !.again = tools_checked]
        /\ discovery' = [discovery EXCEPT !.dwarfs = @ + t.searched]
    /\ UNCHANGED <<runVars, envVars, sevenzVars, squashfsVars>>

L_squashfs_tools_available ==
    /\ prog = "library"
    /\ \E t \in {init_tool(tool_checked, unsquashfs_path, tool_available_cached,
                           envSquashfs)} :
        /\ tool_checked' = TRUE
        /\ unsquashfs_path' = t.path
        /\ tool_available_cached' = t.available
        /\ call' = [NoCallYet EXCEPT !.fn = "squashfs_tools_available",
                                     !.ret = t.available, !.again = tool_checked]
        /\ discovery' = [discovery EXCEPT !.squashfs = @ + t.searched]
    /\ UNCHANGED <<runVars, envVars, sevenzVars, dwarfsVars>>

(***************************************************************************)
(* The temporary directory of dwarfs_extract_entry, squashfs_extract_entry *)
(* A tree is the set of its nodes [path, kind] at and below the temporary  *)
(* directory; paths are absolute. Nothing above it can be removed.         *)
(***************************************************************************)
Node(p, k) == [path |-> p, kind |-> k]
TmpPath == \* "/tmp/d", the directory g_dir_make_tmp made
    <<47, 116, 109, 112, 47, 100>>
TmpDir == Node(TmpPath, "dir")

\* g_build_filename(dir, element)
g_build_filename(dir, element) ==
    IF NoLeadingSlashes(element) = <<>> THEN dir
    ELSE dir \o <<47>> \o NoLeadingSlashes(element)

\* g_path_get_dirname: "." without a separator, "/" when only the root is
\* left, the text before the last run of separators otherwise.
\* sep = the index of the last separator.
DirnameTo(p, keep) == IF keep = {} THEN <<47>> ELSE SubSeq(p, 1, SetMax(keep))
DirnameAt(p, sep) ==
    IF sep = 0 THEN <<46>>
    ELSE DirnameTo(p, {i \in 1..(sep - 1) : p[i] # 47})
g_path_get_dirname(p) == DirnameAt(p, MaxOr0({i \in 1..Len(p) : p[i] = 47}))

\* The directories between the temporary directory and p.
Parents(p) ==
    {Node(SubSeq(p, 1, i - 1), "dir") :
        i \in {j \in (Len(TmpPath) + 2)..Len(p) : p[j] = 47}}

\* g_unlink: removes anything but a directory.
g_unlink(fs, p) == {n \in fs : ~(n.path = p /\ n.kind # "dir")}
\* g_rmdir: removes an empty directory.
HasChild(fs, p) == \E n \in fs : n.path # p /\ g_path_get_dirname(n.path) = p
g_rmdir(fs, p) ==
    IF HasChild(fs, p) THEN fs ELSE {n \in fs : ~(n.path = p /\ n.kind = "dir")}

\* dwarfs_extract_entry: the condition of the loop that removes the parents
\* of the entry.
CleanupContinues(parent) == parent # TmpPath /\ parent # <<46>>

\* remove_directory_recursive of squashfs-extract.c
RECURSIVE remove_directory_recursive(_, _)
RECURSIVE RemoveChildren(_, _)
RemoveChild(fs, todo, child) ==
    RemoveChildren(IF child.kind = "dir" THEN remove_directory_recursive(fs, child.path)
                   ELSE g_unlink(fs, child.path),
                   todo \ {child})
RemoveChildren(fs, todo) ==
    IF todo = {} THEN fs ELSE RemoveChild(fs, todo, CHOOSE c \in todo : TRUE)
remove_directory_recursive(fs, dir_path) ==
    IF Node(dir_path, "dir") \notin fs THEN g_unlink(fs, dir_path)
    ELSE g_rmdir(RemoveChildren(fs, {n \in fs : /\ n.path # dir_path
                                               /\ g_path_get_dirname(n.path) = dir_path}),
                 dir_path)

\* What is found at p after the tool ran.
KindAt(fs, p) ==
    IF \E n \in fs : n.path = p THEN (CHOOSE n \in fs : n.path = p).kind ELSE "none"
TmpAfter(fs) == IF TmpDir \in fs THEN "left" ELSE "removed"

EntryA == \* "a"
    <<97>>
EntryDA == \* "/d/a"
    <<47, 100, 47, 97>>
EntryB == \* "b"
    <<98>>
EntrySlash == \* "/"
    <<47>>
EntrySlashes == \* "//a"
    <<47, 47, 97>>
EntryUp == \* "../a"
    <<46, 46, 47, 97>>
Entries == {EntryA, EntryDA, EntrySlash, EntrySlashes, EntryUp}

\* What the extraction tool can leave under the directory it extracts to,
\* asked for an entry that it puts at path p: nothing, p as a file, as a
\* symlink, as an empty directory, as a directory with a file in it, or p
\* and another file that matches the pattern. Nothing is extracted for a
\* pattern that is empty or leads out of the archive.
IsPlain(clean) ==
    /\ NoLeadingSlashes(clean) # <<>>
    /\ \A i \in 1..(Len(clean) - 1) : ~(clean[i] = 46 /\ clean[i + 1] = 46)
MaterializedAt(base, p) ==
    {{}}
    \cup {Parents(p) \cup {Node(p, k)} : k \in {"file", "symlink", "dir"}}
    \cup {Parents(p) \cup {Node(p, "dir"), Node(g_build_filename(p, EntryB), "file")},
          Parents(p) \cup {Node(p, "file"), Node(g_build_filename(base, EntryB), "file")}}
Materialized(base, clean) ==
    IF IsPlain(clean) THEN MaterializedAt(base, g_build_filename(base, clean)) ELSE {{}}

\* One run of the tool into base: [tmp, ok, fs, bytes, linkOk, behind],
\* bytes = the contents of the file or the target of the symlink at the
\* entry, linkOk = whether the link can be read, behind = the contents of
\* the file the link leads to. made = the directories that exist before the
\* tool creates anything.
ContentsOf(kind) ==
    IF kind = "file" THEN {<<>>, ImgBytes} ELSE IF kind = "symlink" THEN {PtrIconsApp}
    ELSE {<<>>}
TreeRuns(base, clean) ==
    {[tmp |-> FALSE, ok |-> FALSE, fs |-> {}, bytes |-> <<>>, linkOk |-> TRUE],
     [tmp |-> TRUE, ok |-> FALSE, fs |-> {TmpDir}, bytes |-> <<>>, linkOk |-> TRUE]}
    \cup {[tmp |-> TRUE, ok |-> TRUE, fs |-> {TmpDir} \cup Parents(base \o <<47>>) \cup t,
           bytes |-> b, linkOk |-> l] :
            t \in Materialized(base, clean), b \in {<<>>, ImgBytes, PtrIconsApp},
            l \in BOOLEAN}
FoundKind(kind, linkOk) == IF kind = "symlink" /\ ~linkOk THEN "badlink" ELSE kind
FoundAt(run, p) ==
    [tmp |-> run.tmp, ok |-> run.ok, kind |-> FoundKind(KindAt(run.fs, p), run.linkOk),
     bytes |-> run.bytes,
     behind |-> IF KindAt(run.fs, p) = "symlink" THEN ImgBytes ELSE <<>>]
Consistent(run, p) ==
    /\ run.bytes \in ContentsOf(KindAt(run.fs, p))
    /\ run.linkOk \/ KindAt(run.fs, p) = "symlink"

\* dwarfs_extract_entry is in the loop that removes the parents of the entry.
Cleaning == call.tmp = "cleaning"

\* extract_entry_7z called on its own.
L_extract_entry_7z ==
    /\ prog = "extraction" /\ ~Cleaning
    /\ \E entry \in Entries, o7 \in Out7z :
       \E v \in {check_7z_available(sevenz_checked, sevenz_available, env7z)} :
       \E r \in {extract_entry_7z(entry, v, o7)} :
        /\ Drawn(o7, Failed, "7z", r)
        /\ sevenz_checked' = TRUE
        /\ sevenz_available' = v
        /\ discovery' = [discovery EXCEPT !.sevenz = @ + (IF sevenz_checked THEN 0 ELSE 1)]
        /\ call' = [NoCallYet EXCEPT !.fn = "extract_entry_7z", !.arg = entry,
                                     !.ret = r.ok, !.out = r.bytes,
                                     !.invoked = r.invoked, !.again = sevenz_checked]
    /\ UNCHANGED <<runVars, envVars, dwarfsVars, squashfsVars>>

\* dwarfs_extract_entry up to the loop that removes the parents of the entry.
L_dwarfs_extract_entry ==
    /\ prog = "extraction" /\ ~Cleaning
    /\ \E entry \in Entries :
       \E t \in {init_tool_paths(tools_checked, dwarfsextract_path, dwarfsck_path,
                                 tools_available_cached, envDwarfs)},
          run \in TreeRuns(TmpPath, CleanEntry(entry)),
          cleanup_path \in {g_build_filename(TmpPath, CleanEntry(entry))} :
       \E r \in {dwarfs_extract_entry(entry, t.extract, FoundAt(run, cleanup_path))} :
        /\ Consistent(run, cleanup_path)
        /\ t.extract = "" => ~run.tmp
        /\ tools_checked' = TRUE
        /\ dwarfsextract_path' = t.extract
        /\ dwarfsck_path' = t.ck
        /\ tools_available_cached' = t.available
        /\ discovery' = [discovery EXCEPT !.dwarfs = @ + t.searched]
        /\ call' = IF t.extract = "" \/ ~run.tmp
                     THEN [NoCallYet EXCEPT !.fn = "dwarfs_extract_entry", !.arg = entry,
                                            !.ret = r.ok, !.again = tools_checked]
                   ELSE [NoCallYet EXCEPT !.fn = "dwarfs_extract_entry", !.arg = entry,
                                          !.ret = r.ok, !.out = r.bytes,
                                          !.invoked = r.invoked, !.again = tools_checked,
                                          !.tmp = "cleaning",
                                          !.found = FoundAt(run, cleanup_path),
                                          !.fs = g_unlink(run.fs, cleanup_path),
                                          !.parent = g_path_get_dirname(cleanup_path)]
    /\ UNCHANGED <<runVars, envVars, sevenzVars, squashfsVars>>

\* dwarfs_extract_entry: one iteration of the loop that removes the parents
\* of the entry, or the end of the loop, g_rmdir(tmpdir) and the return.
\* turns = the number of iterations made so far, modulo 2.
L_dwarfs_extract_entry_Cleanup ==
    /\ prog = "extraction" /\ Cleaning
    /\ call' = IF CleanupContinues(call.parent)
                 THEN [call EXCEPT !.fs = g_rmdir(call.fs, call.parent),
                                   !.parent = g_path_get_dirname(call.parent),
                                   !.turns = (@ + 1) % 2]
               ELSE [call EXCEPT !.tmp = TmpAfter(g_rmdir(call.fs, TmpPath)),
                                 !.fs = {}, !.parent = <<>>, !.turns = 0]
    /\ UNCHANGED <<runVars, envVars, sevenzVars, dwarfsVars, squashfsVars, discovery>>

\* squashfs_extract_entry, with path the value of unsquashfs_path and found
\* what unsquashfs left at <tmpdir>/root/<entry>.
squashfs_extract_entry(entry, offset, path, found) ==
    IF entry = <<>> \/ offset <= 0 THEN NoCall
    ELSE IF path = "" THEN NoCall
    ELSE IF ~found.tmp THEN NoCall
    ELSE IF ~found.ok THEN Ran("unsquashfs", CleanEntry(entry), FALSE, <<>>)
    ELSE IF found.kind = "symlink" THEN Ran("unsquashfs", CleanEntry(entry), TRUE, found.bytes)
    ELSE IF found.kind = "file" THEN Ran("unsquashfs", CleanEntry(entry), TRUE, found.bytes)
    ELSE Ran("unsquashfs", CleanEntry(entry), FALSE, <<>>)

RootDir == \* "root"
    <<114, 111, 111, 116>>
PayloadOffsets == {0, 4096}

L_squashfs_extract_entry ==
    /\ prog = "extraction" /\ ~Cleaning
    /\ \E entry \in Entries, offset \in PayloadOffsets :
       \E t \in {init_tool(tool_checked, unsquashfs_path, tool_available_cached,
                           envSquashfs)},
          extract_dir \in {g_build_filename(TmpPath, RootDir)} :
       \E run \in TreeRuns(extract_dir, CleanEntry(entry)),
          extracted_path \in {g_build_filename(extract_dir, CleanEntry(entry))} :
       \E r \in {squashfs_extract_entry(entry, offset, t.path,
                                        FoundAt(run, extracted_path))} :
        /\ Consistent(run, extracted_path)
        /\ t.path = "" => ~run.tmp
        /\ offset > 0
        /\ tool_checked' = TRUE
        /\ unsquashfs_path' = t.path
        /\ tool_available_cached' = t.available
        /\ discovery' = [discovery EXCEPT !.squashfs = @ + t.searched]
        /\ call' = [NoCallYet EXCEPT
                        !.fn = "squashfs_extract_entry", !.arg = entry, !.ret = r.ok,
                        !.out = r.bytes, !.invoked = r.invoked, !.again = tool_checked,
                        !.found = IF t.path = "" THEN NothingFound
                                  ELSE FoundAt(run, extracted_path),
                        !.tmp = IF t.path = "" \/ ~run.tmp THEN "none"
                                ELSE TmpAfter(remove_directory_recursive(run.fs, TmpPath))]
    /\ UNCHANGED <<runVars, envVars, sevenzVars, dwarfsVars>>

\* squashfs_extract_entry with an offset that is not positive returns before
\* init_tool.
L_squashfs_extract_entry_NoOffset ==
    /\ prog = "extraction" /\ ~Cleaning
    /\ \E entry \in Entries, offset \in PayloadOffsets :
        /\ offset <= 0
        /\ call' = [NoCallYet EXCEPT
                        !.fn = "squashfs_extract_entry", !.arg = entry,
                        !.ret = squashfs_extract_entry(entry, offset, unsquashfs_path,
                                                       NoTmpDir).ok,
                        !.again = tool_checked]
    /\ UNCHANGED <<runVars, envVars, sevenzVars, dwarfsVars, squashfsVars, discovery>>

LibNext ==
    \/ L_EnvChange
    \/ L_check_7z_available
    \/ L_dwarfs_tools_available
    \/ L_squashfs_tools_available

LibSpec == LibInit /\ [][LibNext]_vars

\* The extraction functions called in any order, in an environment that
\* stays as it is.
ExtractInit ==
    /\ prog = "extraction"
    /\ container = <<>>
    /\ env7z \in Env7z
    /\ envDwarfs \in EnvDwarfs
    /\ envSquashfs \in EnvSquashfs
    /\ pc = "extraction"
    /\ InitStatics
    /\ InitLocals
    /\ call = NoCallYet
    /\ discovery = NoDiscovery

ExtractNext ==
    \/ L_extract_entry_7z
    \/ L_dwarfs_extract_entry
    \/ L_dwarfs_extract_entry_Cleanup
    \/ L_squashfs_extract_entry
    \/ L_squashfs_extract_entry_NoOffset

ExtractSpec == ExtractInit /\ [][ExtractNext]_vars

\* The loop of dwarfs_extract_entry runs on while it can.
ExtractLiveSpec == ExtractSpec /\ WF_vars(L_dwarfs_extract_entry_Cleanup)

(***************************************************************************)
(* Single functions applied to drawn inputs                                *)
(***************************************************************************)
\* Values of e_shoff: 64, 2^64 - 4, 2^63 - 1.
Shoff64 == Word(<<64>>)
ShoffWrap == [i \in 1..8 |-> IF i = 1 THEN 252 ELSE 255]
ShoffMax == [i \in 1..8 |-> IF i = 8 THEN 127 ELSE 255]
\* e_shentsize and e_shnum: products 4, 72 and 65535 * 65535.
SectionTables == {<<2, 2>>, <<36, 2>>, <<65535, 65535>>}
\* The files carry their payload bytes at offset 68. The lengths they are
\* cut to: inside e_ident, at the payload, behind the payload magic.
FileLengths == {10, 68, 76}

\* Headers of every class and byte order with every e_shoff and table, in
\* front of a SquashFS payload; and headers of a payload at 68 with and
\* without the magics, the marker and the payload, cut to each length.
HeaderInputs ==
    [magic : {ELF_MAGIC}, class : {1, 2, 3}, data : {1, 2, 3},
     shoff : {Shoff64, ShoffWrap, ShoffMax}, table : SectionTables,
     marker : {AI_MAGIC}, payload : {SQFS_MAGIC \o Zeros(4)}, len : {76}]
    \cup
    [magic : {ELF_MAGIC, <<127, 69, 76, 71>>}, class : {1, 2}, data : {1, 2},
     shoff : {Shoff64}, table : {<<2, 2>>}, marker : {AI_MAGIC, <<0, 0>>},
     payload : {SQFS_MAGIC \o Zeros(4), DWARFS_MAGIC \o Zeros(2), Zeros(8)},
     len : FileLengths]

\* The bytes a writer of the declared byte order stores for a value.
Stored(b, data) == IF data = 2 THEN Reverse(b) ELSE b
Fields32(h) ==
    Zeros(16) \o Stored(SubSeq(h.shoff, 1, 4), h.data) \o Zeros(10)
    \o Stored(ToLE(h.table[1], 2), h.data) \o Stored(ToLE(h.table[2], 2), h.data)
Fields64(h) ==
    Zeros(24) \o Stored(h.shoff, h.data) \o Zeros(10)
    \o Stored(ToLE(h.table[1], 2), h.data) \o Stored(ToLE(h.table[2], 2), h.data)
HeaderOf(h) ==
    h.magic \o <<h.class, h.data, 1, 0>> \o h.marker \o <<2>> \o Zeros(5)
    \o (IF h.class = 1 THEN Fields32(h) ELSE Fields64(h))
Padded(header, payload) == header \o Zeros(68 - Len(header)) \o payload
FileOf(h) == SubSeq(Padded(HeaderOf(h), h.payload), 1, h.len)
HeaderFiles == {FileOf(h) : h \in HeaderInputs}

FnInit ==
    /\ prog = "functions"
    /\ container \in HeaderFiles
    /\ env7z = Env7zNoSpawn
    /\ envDwarfs = [extractAt |-> {}, ckAt |-> {}]
    /\ envSquashfs = {}
    /\ pc = "functions"
    /\ InitStatics
    /\ InitLocals

\* Each behaviour applies one function to one input.
fnVars == <<prog, container, exit, current, depth, paths, iconVars, last, chainVars,
            fallbackLog, nList, used, normFailDirect, envVars, sevenzVars, dwarfsVars,
            squashfsVars, discovery>>

\* A build that traps on signed overflow ends the call where the sum is
\* undefined; any other build goes on with the sum modulo 2^64.
Traps(r) == IF r.defined THEN {FALSE} ELSE BOOLEAN

F_appimage_get_type ==
    /\ pc = "functions"
    /\ pc' = "returned"
    /\ call' = [NoCallYet EXCEPT !.fn = "appimage_get_type",
                                 !.ret = appimage_get_type(container)]
    /\ UNCHANGED fnVars

F_appimage_payload_offset ==
    /\ pc = "functions"
    /\ pc' = "returned"
    /\ \E r \in {appimage_payload_offset(container)} :
       \E trap \in Traps(r) :
        call' = [NoCallYet EXCEPT !.fn = "appimage_payload_offset",
                                  !.ret = IF trap THEN "trap" ELSE "returned",
                                  !.out = IF trap THEN <<>> ELSE r.off]
    /\ UNCHANGED fnVars

F_appimage_detect_format ==
    /\ pc = "functions"
    /\ pc' = "returned"
    /\ \E r \in {appimage_payload_offset(container)} :
       \E trap \in Traps(r) :
        call' = [NoCallYet EXCEPT !.fn = "appimage_detect_format",
                                  !.out = r.off,
                                  !.ret = IF trap THEN "trap"
                                          ELSE FormatAt(container, r.off)]
    /\ UNCHANGED fnVars

\* The optional size argument: none, or one text.
SizeTexts ==
    {<<>>, <<97, 98, 99>>, <<48>>, <<45, 53>>, <<49>>, <<49, 50, 56>>,
     <<52, 48, 57, 54>>, <<52, 48, 57, 55>>, <<49, 50, 56, 97, 98, 99>>,
     <<32, 49, 50, 56>>, <<43, 49, 50, 56>>, <<49, 50, 32, 56>>}
SizeArguments == {<<>>} \cup {<<t>> : t \in SizeTexts}

F_parse_size_argument ==
    /\ pc = "functions"
    /\ pc' = "returned"
    /\ \E args \in SizeArguments :
        call' = [NoCallYet EXCEPT !.fn = "parse_size_argument", !.arg = args,
                                  !.ret = parse_size_argument(args)]
    /\ UNCHANGED fnVars

\* Buffers handed to is_pointer_candidate.
Repeat(c, n) == [i \in 1..n |-> c]
PointerBuffers ==
    {<<>>, <<32, 32>>, PtrIconsApp, PtrDirIconNl, ImgBytes, <<0>>, <<97, 0, 98>>,
     <<97, 32, 98>>, <<97, 32, 1>>, <<97, 1>>, <<195, 169>>, <<97, 63>>}
    \cup {Repeat(97, n) : n \in {POINTER_TEXT_LIMIT_T, POINTER_TEXT_LIMIT_T + 1,
                                  POINTER_TEXT_LIMIT_M, POINTER_TEXT_LIMIT_M + 1}}
    \cup {Repeat(97, POINTER_TEXT_LIMIT_T) \o <<0>>}
PointerOut(r) == IF r.ok THEN <<r.text>> ELSE <<>>

F_is_pointer_candidate_T ==
    /\ pc = "functions"
    /\ pc' = "returned"
    /\ \E data \in PointerBuffers :
       \E r \in {is_pointer_candidate_T(data)} :
        call' = [NoCallYet EXCEPT !.fn = "is_pointer_candidate_T", !.arg = data,
                                  !.ret = r.ok, !.out = PointerOut(r)]
    /\ UNCHANGED fnVars

F_is_pointer_candidate_M ==
    /\ pc = "functions"
    /\ pc' = "returned"
    /\ \E data \in PointerBuffers :
       \E r \in {is_pointer_candidate_M(data)} :
        call' = [NoCallYet EXCEPT !.fn = "is_pointer_candidate_M", !.arg = data,
                                  !.ret = r.ok, !.out = PointerOut(r)]
    /\ UNCHANGED fnVars

\* Listings with paths that are "/" or begin with "//".
List7zSlash == \* "Path = /\nPath = //a\nPath = b\n"
    <<80, 97, 116, 104, 32, 61, 32, 47, 10, 80, 97, 116, 104, 32, 61, 32,
      47, 47, 97, 10, 80, 97, 116, 104, 32, 61, 32, 98, 10>>
ListDwSlash == \* "-rw-r--r-- 1/1 12 2024-01-01 00:00 //a\n"
    <<45, 114, 119, 45, 114, 45, 45, 114, 45, 45, 32, 49, 47, 49, 32, 49,
      50, 32, 50, 48, 50, 52, 45, 48, 49, 45, 48, 49, 32, 48, 48, 58, 48,
      48, 32, 47, 47, 97, 10>>

\* What a listing function returned: the paths, or a failure, or no return.
ListingRet(r) == IF r.crash THEN "crash" ELSE IF r.ok THEN "listed" ELSE "failed"

F_list_archive_paths_7z ==
    /\ pc = "functions"
    /\ pc' = "returned"
    /\ \E l7 \in Out7zList \cup {[ok |-> TRUE, bytes |-> List7zSlash]}, garbage \in Garbage :
       \E r \in {list_archive_paths_7z(l7, garbage)} :
        call' = [NoCallYet EXCEPT !.fn = "list_archive_paths_7z",
                                  !.arg = TextOf(l7.bytes, garbage),
                                  !.ret = ListingRet(r), !.listed = r.paths,
                                  !.invoked = r.invoked]
    /\ UNCHANGED fnVars

F_dwarfs_list_paths ==
    /\ pc = "functions"
    /\ pc' = "returned"
    /\ \E ld \in OutDwList \cup {[ok |-> TRUE, bytes |-> ListDwSlash]}, garbage \in Garbage,
          path \in {"", "path"} :
       \E r \in {dwarfs_list_paths(path, ld, garbage)} :
        call' = [NoCallYet EXCEPT !.fn = "dwarfs_list_paths",
                                  !.arg = TextOf(ld.bytes, garbage),
                                  !.ret = ListingRet(r), !.listed = r.paths,
                                  !.invoked = r.invoked]
    /\ UNCHANGED fnVars

\* Banners of 7z: versions around the minimum, no version at all, and
\* digits followed by a dot that are not a version.
Banner2300 == \* "7-Zip 23.00"
    <<55, 45, 90, 105, 112, 32, 50, 51, 46, 48, 48>>
Banner2409 == \* "7-Zip (z) 24.09 (x64)"
    <<55, 45, 90, 105, 112, 32, 40, 122, 41, 32, 50, 52, 46, 48, 57, 32,
      40, 120, 54, 52, 41>>
BannerNone == \* "7-Zip"
    <<55, 45, 90, 105, 112>>
BannerStop == \* "7-Zip 9. 24.01"
    <<55, 45, 90, 105, 112, 32, 57, 46, 32, 50, 52, 46, 48, 49>>
BannerSign == \* "7-Zip 24.-5"
    <<55, 45, 90, 105, 112, 32, 50, 52, 46, 45, 53>>
BannerGap == \* "7-Zip 23. 5"
    <<55, 45, 90, 105, 112, 32, 50, 51, 46, 32, 53>>
BannerZero == \* "7-Zip 0.0 24.01"
    <<55, 45, 90, 105, 112, 32, 48, 46, 48, 32, 50, 52, 46, 48, 49>>
Banners ==
    {<<>>, Banner1602, Banner2301, Banner2300, Banner2409, BannerNone, BannerStop,
     BannerSign, BannerGap, BannerZero}
ProbeEnvs ==
    {[at |-> {"path"}, spawn |-> TRUE, banner |-> b] : b \in Banners}
    \cup {[at |-> {}, spawn |-> TRUE, banner |-> Banner2409],
          [at |-> {"path"}, spawn |-> FALSE, banner |-> Banner2409]}

\* check_7z_available on its first call, in the environment env.
F_check_7z_available ==
    /\ pc = "functions"
    /\ pc' = "returned"
    /\ \E env \in ProbeEnvs :
       \E v \in {check_7z_available(sevenz_checked, sevenz_available, env)} :
        /\ env7z' = env
        /\ sevenz_checked' = TRUE
        /\ sevenz_available' = v
        /\ call' = [NoCallYet EXCEPT !.fn = "check_7z_available", !.arg = env.banner,
                                     !.ret = v, !.again = sevenz_checked]
    /\ discovery' = [discovery EXCEPT !.sevenz = @ + (IF sevenz_checked THEN 0 ELSE 1)]
    /\ UNCHANGED <<prog, container, exit, current, depth, paths, iconVars, last,
                   chainVars, fallbackLog, nList, used, normFailDirect, envDwarfs,
                   envSquashfs, dwarfsVars, squashfsVars>>

\* Listings handed to find_first_desktop_entry.
PathAppDesktop == \* "app.desktop"
    <<97, 112, 112, 46, 100, 101, 115, 107, 116, 111, 112>>
PathOtherDesktop == \* "usr/b.desktop"
    <<117, 115, 114, 47, 98, 46, 100, 101, 115, 107, 116, 111, 112>>
PathUpperDesktop == \* "A.DESKTOP"
    <<65, 46, 68, 69, 83, 75, 84, 79, 80>>
PathDesktopBak == \* "x.desktop.bak"
    <<120, 46, 100, 101, 115, 107, 116, 111, 112, 46, 98, 97, 107>>
PathPng == \* "a.png"
    <<97, 46, 112, 110, 103>>
DesktopListings ==
    {<<>>, <<PathPng>>, <<PathPng, PathAppDesktop, PathOtherDesktop>>,
     <<PathDesktopBak, PathOtherDesktop>>, <<PathUpperDesktop>>,
     <<PathUpperDesktop, PathAppDesktop>>, <<PathDesktopBak>>}

F_find_first_desktop_entry ==
    /\ pc = "functions"
    /\ pc' = "returned"
    /\ \E listing \in DesktopListings :
        call' = [NoCallYet EXCEPT !.fn = "find_first_desktop_entry", !.listed = listing,
                                  !.out = find_first_desktop_entry(listing)]
    /\ UNCHANGED fnVars

\* lround(x) for x = num / den computed in double precision, num >= 0 and
\* den > 0: the nearest integer; when num / den lies halfway between two
\* integers the rounding errors of the division and of the product decide
\* which of the two it is.
NearestOf(q, twice, den) ==
    IF twice < den THEN {q} ELSE IF twice = den THEN {q, q + 1} ELSE {q + 1}
\* Fault: the product is truncated.
lround_Truncated(num, den) == {num \div den}

lround(num, den) == NearestOf(num \div den, 2 * (num % den), den)

\* scale_pixbuf: the width and height of the pixbuf it returns, ok = FALSE
\* for NULL. scale = MIN(size / width, size / height) = size / longer.
NoPixbuf == [ok |-> FALSE, w |-> 0, h |-> 0]
Pixbuf(w, h) == [ok |-> TRUE, w |-> w, h |-> h]
Longer(width, height) == SetMax({width, height})
\* scale_pixbuf of appimage-thumbnailer.c
scale_pixbuf_T(width, height, size) ==
    IF width <= 0 \/ height <= 0 THEN {NoPixbuf}
    ELSE IF size <= 0 THEN {Pixbuf(SetMin({width, size}), SetMin({height, size}))}
    ELSE {Pixbuf(SetMin({SetMax({1, tw}), size}), SetMin({SetMax({1, th}), size})) :
            tw \in lround(width * size, Longer(width, height)),
            th \in lround(height * size, Longer(width, height))}
\* scale_pixbuf of main.c
scale_pixbuf_M(width, height, size) ==
    IF width <= 0 \/ height <= 0 THEN {NoPixbuf}
    ELSE IF width <= size /\ height <= size THEN {Pixbuf(width, height)}
    ELSE {Pixbuf(SetMax({1, tw}), SetMax({1, th})) :
            tw \in lround(width * size, Longer(width, height)),
            th \in lround(height * size, Longer(width, height))}

\* Images and target sizes: <<width, height, size>>.
ScaleInputs ==
    {<<300, 200, 64>>, <<200, 300, 64>>, <<300, 300, 64>>, <<100, 50, 256>>,
     <<0, 10, 64>>, <<8192, 4097, MAX_THUMBNAIL_SIZE>>, <<4097, 8192, 1>>, <<4, 3, 2>>,
     <<200, 65, 64>>, <<64, 64, 64>>, <<5000, 2, 64>>, <<65, 66, 64>>}

F_scale_pixbuf_T ==
    /\ pc = "functions"
    /\ pc' = "returned"
    /\ \E in \in ScaleInputs :
       \E r \in scale_pixbuf_T(in[1], in[2], in[3]) :
        call' = [NoCallYet EXCEPT !.fn = "scale_pixbuf", !.arg = in, !.ret = r.ok,
                                  !.out = <<r.w, r.h>>]
    /\ UNCHANGED fnVars

F_scale_pixbuf_M ==
    /\ pc = "functions"
    /\ pc' = "returned"
    /\ \E in \in ScaleInputs :
       \E r \in scale_pixbuf_M(in[1], in[2], in[3]) :
        call' = [NoCallYet EXCEPT !.fn = "scale_pixbuf", !.arg = in, !.ret = r.ok,
                                  !.out = <<r.w, r.h>>]
    /\ UNCHANGED fnVars

FnNext ==
    \/ F_appimage_get_type
    \/ F_appimage_payload_offset
    \/ F_appimage_detect_format
    \/ F_parse_size_argument
    \/ F_is_pointer_candidate_T
    \/ F_is_pointer_candidate_M
    \/ F_list_archive_paths_7z
    \/ F_dwarfs_list_paths
    \/ F_check_7z_available
    \/ F_find_first_desktop_entry
    \/ F_scale_pixbuf_T
    \/ F_scale_pixbuf_M

FnSpec == FnInit /\ [][FnNext]_vars

(***************************************************************************)
(* The helpers that run an external tool                                   *)
(* command_capture, command_capture_dwarfs, command_run_squashfs and the   *)
(* part of check_7z_available that runs 7z, step by step. pc is the place  *)
(* in the helper; call holds its name (fn), the bytes read so far (arg),   *)
(* the child (child: "none", "running", or "waited" once waitpid was       *)
(* called for it), the status waitpid gave (status), whether *output was   *)
(* assigned (assigned, out) and the value returned (ret).                  *)
(***************************************************************************)
Helpers == {"command_capture", "command_capture_dwarfs", "command_run_squashfs",
            "check_7z_available"}
HasPipe(fn) == fn # "command_run_squashfs"
HasOutput(fn) == fn \in {"command_capture", "command_capture_dwarfs"}
MaxChunks == 2
Chunks == {Banner1602, Banner2301}
Statuses == {"exit0", "exit1", "signal"}

helperVars == <<prog, container, exit, current, depth, paths, iconVars, last, chainVars,
                fallbackLog, nList, used, normFailDirect, envVars, dwarfsVars,
                squashfsVars, discovery>>

HelperInit ==
    /\ prog = "helper"
    /\ container = <<>>
    /\ env7z \in Env7z
    /\ envDwarfs \in EnvDwarfs
    /\ envSquashfs \in EnvSquashfs
    /\ pc = "helper"
    /\ InitStatics
    /\ InitLocals
    /\ call = NoCallYet
    /\ discovery = NoDiscovery

\* The value check_7z_available returns after waitpid: the exit status is
\* not looked at.
ProbeResult(arr, status) ==
    IF Len(arr) = 0 THEN FALSE ELSE VersionFound(ParseBanner(arr))
\* The value the other helpers return after a waitpid that succeeded.
ExitResult(arr, status) == status = "exit0"
HelperResult(fn, arr, status) ==
    IF fn = "check_7z_available" THEN ProbeResult(arr, status) ELSE ExitResult(arr, status)

\* Fault: the read error returns without waitpid.
ReadFailed_NoWait(c) == [c EXCEPT !.ret = FALSE]

\* command_capture, command_capture_dwarfs: a read error other than EINTR.
ReadFailed(c) == [c EXCEPT !.ret = FALSE, !.child = "waited"]

\* Entry to the helper and pipe(); command_run_squashfs has no pipe.
H_Pipe ==
    /\ pc = "helper"
    /\ \E fn \in Helpers, ok \in BOOLEAN :
        /\ ok \/ HasPipe(fn)
        /\ fn = "check_7z_available" => g_find_program_in_path(env7z.at)
        /\ pc' = IF ok THEN "fork" ELSE "returned"
        /\ call' = [NoCallYet EXCEPT !.fn = fn, !.ret = IF ok THEN "none" ELSE FALSE]
        /\ sevenz_checked' = (sevenz_checked \/ fn = "check_7z_available")
        /\ UNCHANGED sevenz_available
    /\ UNCHANGED helperVars

\* fork()
H_Fork ==
    /\ pc = "fork"
    /\ \E ok \in BOOLEAN :
        /\ pc' = IF ~ok THEN "returned" ELSE IF HasPipe(call.fn) THEN "read" ELSE "wait"
        /\ call' = IF ok THEN [call EXCEPT !.child = "running"]
                   ELSE [call EXCEPT !.ret = FALSE]
    /\ UNCHANGED <<helperVars, sevenzVars>>

\* One read() of the loop: bytes, end of file, EINTR or another error. The
\* loop of check_7z_available ends at every result that is not positive.
H_Read ==
    /\ pc = "read"
    /\ \E res \in {"bytes", "eof", "eintr", "error"}, chunk \in Chunks :
        /\ res = "bytes" => Len(call.arg) < MaxChunks * Len(chunk)
        /\ pc' = IF res = "bytes" THEN "read"
                 ELSE IF res = "eof" \/ ~HasOutput(call.fn) THEN "wait"
                 ELSE IF res = "eintr" THEN "read"
                 ELSE "returned"
        /\ call' = IF res = "bytes" THEN [call EXCEPT !.arg = @ \o chunk]
                   ELSE IF res = "error" /\ HasOutput(call.fn) THEN ReadFailed(call)
                   ELSE call
    /\ UNCHANGED <<helperVars, sevenzVars>>

\* waitpid() and the return. check_7z_available does not test what waitpid
\* returns.
H_Wait ==
    /\ pc = "wait"
    /\ pc' = "returned"
    /\ \E ok \in BOOLEAN, status \in Statuses :
       \E r \in {IF ok \/ call.fn = "check_7z_available"
                   THEN HelperResult(call.fn, call.arg, status) ELSE FALSE} :
        /\ call' = [call EXCEPT !.child = "waited",
                                !.status = IF ok THEN status ELSE "none",
                                !.ret = r,
                                !.assigned = r /\ HasOutput(call.fn),
                                !.out = IF r /\ HasOutput(call.fn) THEN call.arg ELSE <<>>]
        /\ sevenz_available' = IF call.fn = "check_7z_available" THEN r
                               ELSE sevenz_available
        /\ UNCHANGED sevenz_checked
    /\ UNCHANGED helperVars

HelperNext == H_Pipe \/ H_Fork \/ H_Read \/ H_Wait

HelperSpec == HelperInit /\ [][HelperNext]_vars

(***************************************************************************)
(* Properties                                                              *)
(***************************************************************************)
IsPrefix(a, b) == Len(a) <= Len(b) /\ a = SubSeq(b, 1, Len(a))
Tools(invoked) == [i \in 1..Len(invoked) |-> invoked[i].tool]
Format == appimage_detect_format(container)

\* The hop bound of the loop the running program uses.
Bound == IF prog = "thumbnailer" THEN MAX_SYMLINK_DEPTH ELSE MAX_DIRICON_CHAIN

\* C1: one run of the direct-chain loop makes at most <bound> extraction
\* calls (5 in process_entry_following_symlinks, 8 in try_dir_icon); when
\* every extraction of the run gave pointer text, the run has made exactly
\* <bound> extractions and has returned failure.
C1_HopBound ==
    /\ chainCalls <= Bound
    /\ depth < Bound
    /\ chainCalls = Bound => chainRet # "running"
    /\ chainLen = Bound => (chainCalls = Bound /\ chainRet = "FALSE" /\ depth = 0)

\* A two-entry cycle .DirIcon -> icons/app.svg -> .DirIcon has used up the
\* five hops of appimage-thumbnailer.c and the run has returned failure.
C1_Witness ==
    /\ prog = "thumbnailer"
    /\ chainLen = MAX_SYMLINK_DEPTH
    /\ chainRet = "FALSE"
    /\ last.entry = DirIcon
    /\ last.bytes = PtrIconsApp

\* C2: the dispatcher never invokes the backend the header parser ruled
\* out: no 7z extraction for a DwarFS payload, no dwarfsextract for a
\* SquashFS payload.
C2_RuledOutBackendSkipped ==
    (prog = "thumbnailer" /\ last.op = "extract") =>
        /\ Format = APPIMAGE_FORMAT_DWARFS =>
               \A i \in 1..Len(last.invoked) : last.invoked[i].tool # "7z"
        /\ Format = APPIMAGE_FORMAT_SQUASHFS =>
               \A i \in 1..Len(last.invoked) : last.invoked[i].tool # "dwarfsextract"

\* C3: for a payload that starts with hsqs, with 7z unavailable and the
\* DwarFS tools available, no dispatcher call runs 7z: every tool a call
\* runs is a DwarFS tool.
C3_OnlyDwarfsWhenNo7z ==
    (/\ prog = "thumbnailer"
     /\ Format = APPIMAGE_FORMAT_SQUASHFS
     /\ sevenz_checked /\ ~sevenz_available /\ tools_available_cached) =>
        /\ "7z" \notin used
        /\ \A i \in 1..Len(last.invoked) :
               last.invoked[i].tool \in {"dwarfsextract", "dwarfsck"}

\* Such a call has run dwarfsextract, and only it, and got the entry.
C3_Witness ==
    /\ prog = "thumbnailer"
    /\ Format = APPIMAGE_FORMAT_SQUASHFS
    /\ sevenz_checked /\ ~sevenz_available /\ tools_available_cached
    /\ last.op = "extract"
    /\ Tools(last.invoked) = <<"dwarfsextract">>
    /\ last.ok

\* The result a dispatcher call handed back: bytes of extract_entry, paths
\* of list_archive_paths.
ResultOfLast == IF last.op = "extract" THEN last.bytes ELSE paths
DwarfsToolOfLast == IF last.op = "extract" THEN "dwarfsextract" ELSE "dwarfsck"

\* C4: with a payload of unknown format and both backends available, a
\* call of extract_entry or list_archive_paths that returns has run 7z
\* first, the DwarFS tool only after 7z failed, each at most once; it
\* succeeds exactly when one of them succeeded, with the result of the
\* first one that did.
C4_SevenZipThenDwarfs ==
    (/\ prog = "thumbnailer"
     /\ Format = APPIMAGE_FORMAT_UNKNOWN
     /\ sevenz_available /\ tools_available_cached
     /\ last.op # "none"
     /\ exit # "SIGSEGV") =>
        /\ Len(last.invoked) \in {1, 2}
        /\ last.invoked[1].tool = "7z"
        /\ Len(last.invoked) = 2 =>
               (last.invoked[2].tool = DwarfsToolOfLast /\ ~last.invoked[1].ok)
        /\ last.ok <=> (\E i \in 1..Len(last.invoked) : last.invoked[i].ok)
        /\ \A i \in 1..Len(last.invoked) :
               (last.invoked[i].ok /\ \A j \in 1..(i - 1) : ~last.invoked[j].ok)
                   => ResultOfLast = last.invoked[i].out

\* 7z failed, dwarfsextract was run after it and delivered the entry.
C4_Witness ==
    /\ prog = "thumbnailer"
    /\ Format = APPIMAGE_FORMAT_UNKNOWN
    /\ sevenz_available /\ tools_available_cached
    /\ last.op = "extract"
    /\ Tools(last.invoked) = <<"7z", "dwarfsextract">>
    /\ last.ok
    /\ last.bytes = ImgBytes

\* C5: the dispatcher never returns success with an empty byte buffer.
C5_NoEmptySuccess ==
    (prog = "thumbnailer" /\ last.op = "extract" /\ last.ok) => last.bytes # <<>>

KeyMyapp == \* "myapp"
    <<109, 121, 97, 112, 112>>
\* The direct candidates the specification lists for the key myapp.
ClaimedDirect ==
    <<KeyMyapp, DotSlash \o KeyMyapp, KeyMyapp \o ExtSvg, KeyMyapp \o ExtPng,
      KeyMyapp \o ExtXpm>>
\* The entries passed to extraction for the key myapp before the theme roots.
TriedDirect ==
    <<KeyMyapp, KeyMyapp, DotSlash \o KeyMyapp,
      KeyMyapp \o ExtSvg, KeyMyapp \o ExtSvg, DotSlash \o KeyMyapp \o ExtSvg,
      KeyMyapp \o ExtPng, KeyMyapp \o ExtPng, DotSlash \o KeyMyapp \o ExtPng,
      KeyMyapp \o ExtXpm, KeyMyapp \o ExtXpm, DotSlash \o KeyMyapp \o ExtXpm>>

\* C6 as stated: for the key myapp the entries passed to extraction after
\* the descriptor are exactly myapp, ./myapp, myapp.svg, myapp.png,
\* myapp.xpm and then those of the theme-root search.
C6_ClaimedSequence ==
    (prog = "main" /\ icon = KeyMyapp /\ fallbackLog # <<>>) =>
        IsPrefix(Tail(fallbackLog), ClaimedDirect \o RootWork(paths, icon))

\* C6, amended: for the key myapp each of myapp, myapp.svg, myapp.png,
\* myapp.xpm is passed to extraction as itself, as itself again, and with
\* "./" in front, in this order, then come the entries of the theme-root
\* search; nothing is tried after the first success and the search fails
\* only when all of them were tried.
C6_VariantSequence ==
    (prog = "main" /\ icon = KeyMyapp /\ fallbackLog # <<>>) =>
        /\ IsPrefix(Tail(fallbackLog), TriedDirect \o RootWork(paths, icon))
        /\ pc = "icon" => Len(fallbackLog) = pos
        /\ (pc = "done" /\ exit = "EXIT_SUCCESS") =>
               (/\ last.ok /\ last.norm = "ok"
                /\ last.entry = fallbackLog[Len(fallbackLog)])
        /\ (pc = "done" /\ exit = "EXIT_FAILURE") =>
               Tail(fallbackLog) = TriedDirect \o RootWork(paths, icon)

\* All twelve direct attempts for myapp have been made and have failed.
C6_Witness ==
    /\ prog = "main" /\ icon = KeyMyapp
    /\ pc = "icon"
    /\ Tail(fallbackLog) = TriedDirect

\* C7: the listing and every extraction after it happen only after the run
\* of the loop on .DirIcon returned failure, and they follow every such
\* failure, the one caused by the hop bound included; after a successful
\* run of the loop nothing is listed or extracted.
C7_FallbackAfterFailure ==
    /\ (nList > 0 \/ fallbackLog # <<>> \/ pc \in {"list", "desktop", "svg", "png", "icon"})
           => dirIconRet = "FALSE"
    /\ dirIconRet = "FALSE" => (nList > 0 \/ pc \in {"list", "desktop"})
    /\ dirIconRet = "TRUE" =>
           (/\ pc = "done" /\ exit = "EXIT_SUCCESS"
            /\ nList = 0 /\ fallbackLog = <<>>
            /\ last.op = "extract" /\ last.norm = "ok")

\* The hop bound ended the run on .DirIcon and the archive was listed.
C7_Witness ==
    /\ prog = "thumbnailer"
    /\ dirIconRet = "FALSE"
    /\ chainLen = MAX_SYMLINK_DEPTH
    /\ nList = 1
    /\ last.op = "list"

\* C8 as stated: once the normalizer failed on data reached from .DirIcon
\* the run is over with failure status and nothing else is listed or
\* extracted.
C8_ClaimedTermination ==
    normFailDirect => (pc = "done" /\ exit = "EXIT_FAILURE" /\ nList = 0)

\* C8, amended: a normalizer failure on data reached from .DirIcon ends the
\* run of the loop with failure, no further entry of the chain is tried,
\* and the program goes on to the listing; it exits with failure only after
\* the fallback was tried.
C8_NormFailEndsChain ==
    normFailDirect =>
        /\ dirIconRet = "FALSE"
        /\ nList = 0 =>
               (/\ pc \in {"list", "desktop"} /\ exit = "running"
                /\ last.norm = "fail" /\ chainRet = "FALSE" /\ depth = 0)
        /\ exit = "EXIT_FAILURE" => nList >= 1

\* The normalizer failed on .DirIcon data and the fallback produced the
\* thumbnail.
C8_Witness ==
    /\ normFailDirect
    /\ nList = 1
    /\ exit = "EXIT_SUCCESS"

\* Whether a listing entry is a theme-root match for the icon name.
IsThemeMatch(path, name) ==
    \E r \in 1..Len(roots), e \in 1..Len(extensions) :
        /\ g_str_has_prefix(path, roots[r])
        /\ g_str_has_suffix(path, extensions[e])
        /\ StrCaseEq(SubSeq(g_path_get_basename(path), 1,
                            Len(g_path_get_basename(path)) - Len(extensions[e])),
                     remove_extension(g_path_get_basename(name)))
        /\ Len(g_path_get_basename(path)) > Len(extensions[e])
DirectLen == Len(DirectWork(icon))

\* C9: in the theme-root search every matching listing entry is a
\* candidate; a candidate whose extraction or normalization fails is
\* followed by the next one, the search succeeds at the first candidate
\* that normalizes and fails only after all of them were tried.
C9_ThemeSearchContinues ==
    (prog = "main" /\ work # <<>>) =>
        /\ \A i \in 1..Len(paths) :
               IsThemeMatch(paths[i], icon) =>
                   \E k \in (DirectLen + 1)..Len(work) : work[k] = paths[i]
        /\ (pc = "icon" /\ pos > DirectLen + 1) =>
               (/\ Tail(fallbackLog) = SubSeq(work, 1, pos - 1)
                /\ ~(last.ok /\ last.norm = "ok"))
        /\ (pc = "done" /\ exit = "EXIT_SUCCESS") =>
               (/\ Tail(fallbackLog) = SubSeq(work, 1, pos)
                /\ last.ok /\ last.norm = "ok")
        /\ (pc = "done" /\ exit = "EXIT_FAILURE") => Tail(fallbackLog) = work

PixmapsMyApp == \* "usr/share/pixmaps/MyApp.svg"
    <<117, 115, 114, 47, 115, 104, 97, 114, 101, 47, 112, 105, 120, 109, 97,
      112, 115, 47, 77, 121, 65, 112, 112, 46, 115, 118, 103>>

\* The first match, under usr/share/icons, failed in all its variants and
\* the second one, under usr/share/pixmaps, gave the thumbnail.
C9_Witness ==
    /\ prog = "main" /\ icon = KeyMyapp
    /\ pc = "done" /\ exit = "EXIT_SUCCESS"
    /\ pos = DirectLen + 4
    /\ last.entry = PixmapsMyApp

\* Whether an available backend is the one of the payload format (any
\* backend, when the format is unknown).
Available7z == IF prog = "thumbnailer" THEN sevenz_available ELSE g_find_program_in_path(env7z.at)
AvailableDwarfs == prog = "thumbnailer" /\ tools_available_cached
CanServe ==
    \/ Format = APPIMAGE_FORMAT_SQUASHFS /\ Available7z
    \/ Format = APPIMAGE_FORMAT_DWARFS /\ AvailableDwarfs
    \/ Format = APPIMAGE_FORMAT_UNKNOWN /\ (Available7z \/ AvailableDwarfs)

\* C10: when no available backend can serve the payload format, the
\* process exits with failure status before any tool is run to extract or
\* list.
C10_ExitBeforeTools ==
    (pc # "start" /\ ~CanServe) =>
        (used = {} /\ pc = "done" /\ exit = "EXIT_FAILURE")

\* C11: once a tool kind was probed, a later call of its availability
\* function returns the cached value, runs no discovery and leaves the
\* cached flags as they are, whatever the tools installed by then; no tool
\* kind runs its discovery more than once.
C11_ProbeOnce ==
    [][/\ sevenz_checked =>
              /\ sevenz_checked' /\ sevenz_available' = sevenz_available
              /\ discovery'.sevenz = discovery.sevenz
              /\ (call'.fn = "check_7z_available" => call'.ret = sevenz_available)
       /\ tools_checked =>
              /\ tools_checked' /\ tools_available_cached' = tools_available_cached
              /\ dwarfsextract_path' = dwarfsextract_path
              /\ dwarfsck_path' = dwarfsck_path
              /\ discovery'.dwarfs = discovery.dwarfs
              /\ (call'.fn = "dwarfs_tools_available"
                      => call'.ret = tools_available_cached)
       /\ tool_checked =>
              /\ tool_checked' /\ tool_available_cached' = tool_available_cached
              /\ unsquashfs_path' = unsquashfs_path
              /\ discovery'.squashfs = discovery.squashfs
              /\ (call'.fn = "squashfs_tools_available"
                      => call'.ret = tool_available_cached)
       /\ discovery'.sevenz <= 1 /\ discovery'.dwarfs <= 1 /\ discovery'.squashfs <= 1
      ]_vars

\* check_7z_available was called again after a 7z >= 23.01 had appeared in
\* PATH, and returned the FALSE of its first probe.
C11_Witness ==
    /\ call.fn = "check_7z_available"
    /\ call.again
    /\ call.ret = FALSE
    /\ Probe7z(env7z)
    /\ discovery.sevenz = 1

\* C12: after dwarfs_extract_entry or squashfs_extract_entry returned, the
\* temporary directory it made exists no longer, whatever the tool left in it.
C12_TmpDirRemoved ==
    call.fn \in {"dwarfs_extract_entry", "squashfs_extract_entry"} => call.tmp # "left"

\* C13: appimage_detect_format returns Unknown for every file that is shorter
\* than 16 bytes, does not start with the ELF magic or has no AI at bytes 8
\* and 9, whatever stands at the payload offset.
C13_NotAppImageUnknown ==
    /\ call.fn = "appimage_detect_format"
    /\ call.ret # "trap"
    /\ \/ Len(container) < 16
       \/ SubSeq(container, 1, 4) # ELF_MAGIC
       \/ SubSeq(container, 9, 10) # AI_MAGIC
    => call.ret = APPIMAGE_FORMAT_UNKNOWN

\* C14: appimage_detect_format returns Unknown whenever the payload offset
\* it computed is not below the length of the file: a result of SquashFS or
\* DwarFS comes with an offset that is positive and below the length.
OffsetWithin(offset, file) ==
    /\ ~IsNegative(offset) /\ ~IsZero(offset)
    /\ \A i \in 4..8 : offset[i] = 0
    /\ FromLE(SubSeq(offset, 1, 3)) < Len(file)
C14_OffsetWithinFile ==
    call.fn = "appimage_detect_format" /\ call.ret # "trap" =>
        /\ ~OffsetWithin(call.out, container) => call.ret = APPIMAGE_FORMAT_UNKNOWN
        /\ call.ret \in {APPIMAGE_FORMAT_SQUASHFS, APPIMAGE_FORMAT_DWARFS}
               => OffsetWithin(call.out, container)
\* A complete header whose payload offset is the length of the file.
C14_Witness ==
    /\ call.fn = "appimage_detect_format"
    /\ call.out = Word(<<68>>)
    /\ Len(container) = 68
    /\ call.ret = APPIMAGE_FORMAT_UNKNOWN

\* C20: for a file with a complete ELF header, appimage_payload_offset
\* returns e_shoff + e_shnum * e_shentsize as a number, the fields taken
\* from the offsets of the class in e_ident[4] and read in the byte order of
\* e_ident[5]; it returns -1 when the class or the byte order is neither 1
\* nor 2.
DeclaredField(file, at, n) ==
    IF file[6] = 2 THEN Reverse(SubSeq(file, at + 1, at + n))
    ELSE SubSeq(file, at + 1, at + n)
DeclaredShoff(file) ==
    Word(IF file[5] = 1 THEN DeclaredField(file, 32, 4) ELSE DeclaredField(file, 40, 8))
DeclaredTable(file) ==
    Word(IF file[5] = 1
             THEN Mul16(DeclaredField(file, 46, 2), DeclaredField(file, 48, 2))
         ELSE Mul16(DeclaredField(file, 58, 2), DeclaredField(file, 60, 2)))
\* a < b for two unsigned 64-bit values
Below(a, b) ==
    \E i \in 1..8 : a[i] < b[i] /\ \A j \in (i + 1)..8 : a[j] = b[j]
IsExactSum(r, x, y) == r = Add64(x, y) /\ ~Below(r, x) /\ ~IsNegative(r)
C20_ExactOffset ==
    /\ call.fn = "appimage_payload_offset"
    /\ call.ret = "returned"
    /\ Len(container) >= 64
    /\ SubSeq(container, 1, 4) = ELF_MAGIC
    => IF container[5] \in {1, 2} /\ container[6] \in {1, 2}
           THEN IsExactSum(call.out, DeclaredShoff(container), DeclaredTable(container))
       ELSE call.out = MinusOne

\* C15: parse_size_argument returns a size between 1 and 4096: the value of
\* the argument when the argument is a decimal integer between 1 and 4096,
\* and 256 for every other argument and when there is none.
IsInteger(t) ==
    /\ Len(t) >= 1
    /\ \A i \in 2..Len(t) : g_ascii_isdigit(t[i])
    /\ g_ascii_isdigit(t[1]) \/ (t[1] \in {43, 45} /\ Len(t) >= 2)
IntegerOf(t) ==
    IF t[1] = 45 THEN 0 - DigitsVal(Tail(t))
    ELSE IF t[1] = 43 THEN DigitsVal(Tail(t))
    ELSE DigitsVal(t)
IsSize(args) ==
    args # <<>> /\ IsInteger(args[1]) /\ IntegerOf(args[1]) \in 1..4096
C15_SizeOrDefault ==
    call.fn = "parse_size_argument" =>
        /\ call.ret \in 1..4096
        /\ call.ret = IF IsSize(call.arg) THEN IntegerOf(call.arg[1]) ELSE 256

\* C17: is_pointer_candidate accepts a buffer only if its length is between
\* 1 and POINTER_TEXT_LIMIT, each of its bytes is printable ASCII or ASCII
\* whitespace, and the text without the surrounding whitespace is not empty
\* and consists of letters, digits and / . - _ only.
LimitOf(fn) ==
    IF fn = "is_pointer_candidate_T" THEN POINTER_TEXT_LIMIT_T ELSE POINTER_TEXT_LIMIT_M
IsPointerText(t) ==
    /\ t # <<>>
    /\ \A i \in 1..Len(t) : g_ascii_isalnum(t[i]) \/ t[i] \in {47, 46, 45, 95}
C17_PointerOnlyIf ==
    call.fn \in {"is_pointer_candidate_T", "is_pointer_candidate_M"} /\ call.ret = TRUE =>
        /\ Len(call.arg) \in 1..LimitOf(call.fn)
        /\ \A i \in 1..Len(call.arg) : call.arg[i] \in 32..126 \/ call.arg[i] \in 9..13
        /\ IsPointerText(g_strstrip(call.arg))

\* C18: is_pointer_candidate returns FALSE for every buffer that holds a NUL
\* byte, and sets no pointer text.
C18_NulIsData ==
    /\ call.fn \in {"is_pointer_candidate_T", "is_pointer_candidate_M"}
    /\ \E i \in 1..Len(call.arg) : call.arg[i] = 0
    => call.ret = FALSE /\ call.out = <<>>
\* A NUL byte behind a character that alone would be a pointer.
C18_Witness ==
    /\ call.fn = "is_pointer_candidate_M"
    /\ call.arg = <<97, 0, 98>>
    /\ call.ret = FALSE

\* C16: a run lists the archive at most once; once it has the listing, no
\* later step lists again or changes the listing it holds.
C16_ListOnce ==
    [][/\ nList' <= 1
       /\ nList = 1 => nList' = 1 /\ paths' = paths]_vars
\* The thumbnailer tries the PNG icon of the listing after the SVG icon
\* failed; main.c is at the second entry it tries for the icon key.
C16_Witness ==
    /\ nList = 1
    /\ last.op = "extract"
    /\ \/ prog = "thumbnailer" /\ pc = "png"
       \/ prog = "main" /\ pc = "icon" /\ pos = 2

\* C19, as claimed: after every extraction whose bytes are a pointer, the
\* normalizer is not run on them and the next call of the dispatcher extracts
\* the entry named by the pointer text.
C19_ClaimedNextTarget ==
    [][/\ last'.class = "pointer" => last'.norm = "none"
       /\ last.class = "pointer"
              => last'.op = "extract" /\ last'.entry = g_strstrip(last.bytes)]_vars
\* C19, amended: when an extraction of the pointer-following loop yields a
\* pointer and the loop has hops left, the normalizer is not run on the bytes
\* and the next call of the dispatcher extracts the entry named by the
\* trimmed pointer text, as it stands.
C19_NextTarget ==
    [][/\ last'.class = "pointer" => last'.norm = "none"
       /\ last.class = "pointer" /\ depth > 0
              => last'.op = "extract" /\ last'.entry = g_strstrip(last.bytes)]_vars
\* .DirIcon held the text icons/app.svg and the second call of the loop
\* extracted that entry.
C19_Witness ==
    /\ last.op = "extract"
    /\ last.entry = PtrIconsApp
    /\ chainCalls = 2
    /\ dirIconRet # "none"

\* C21: the entry path handed to an external extraction tool by
\* extract_entry_7z or dwarfs_extract_entry is never empty and never begins
\* with "/".
C21_RelativeEntry ==
    call.fn \in {"extract_entry_7z", "dwarfs_extract_entry"}
        => \A i \in 1..Len(call.invoked) :
            /\ call.invoked[i].arg # <<>>
            /\ call.invoked[i].arg[1] # 47

\* C29: dwarfs_extract_entry terminates for every non-empty entry it
\* accepts: the loop that removes the parents of <tmpdir>/<entry> always
\* comes to an end, also for the entry "/" and for entries with "..".
C29_CleanupEnds == Cleaning ~> ~Cleaning

\* C22: when the extracted entry is a symlink, dwarfs_extract_entry and
\* squashfs_extract_entry return exactly the target text of the link, never
\* the contents of the file it leads to; a link whose target cannot be read
\* makes them fail.
C22_LinkTarget ==
    /\ call.fn \in {"dwarfs_extract_entry", "squashfs_extract_entry"}
    /\ ~Cleaning
    /\ call.found.ok
    => /\ call.found.kind = "symlink"
            => call.ret = TRUE /\ call.out = call.found.bytes
                               /\ call.out # call.found.behind
       /\ call.found.kind = "badlink" => call.ret = FALSE /\ call.out = <<>>
C22_Witness ==
    /\ call.fn = "dwarfs_extract_entry"
    /\ ~Cleaning
    /\ call.found.ok
    /\ call.found.kind = "symlink"
    /\ call.ret = TRUE
    /\ call.out = PtrIconsApp

\* C23: every path of a listing returned by dwarfs_list_paths or
\* list_archive_paths_7z is non-empty, holds no " -> target" suffix and has
\* no leading "/"; there is at most one path for each line of the output of
\* the tool, and the listing fails when no path was parsed.
C23_ListedPaths ==
    call.fn \in {"list_archive_paths_7z", "dwarfs_list_paths"}
        => /\ call.ret = "listed" =>
                /\ call.listed # <<>>
                /\ Len(call.listed) <= Len(g_strsplit(call.arg, 10))
                /\ \A i \in 1..Len(call.listed) :
                    /\ call.listed[i] # <<>>
                    /\ call.listed[i][1] # 47
                    /\ g_strstr(call.listed[i], Arrow) = 0
           /\ call.ret = "failed" => call.listed = <<>>

\* C24: check_7z_available returns TRUE exactly when 7z is found and the
\* first token of its banner made of digits, a dot and digits is a version
\* with major > 23, or major = 23 and minor >= 1; a banner that is empty or
\* holds no such token makes it return FALSE.
TokenEnds(s, e) == e < Len(s) /\ s[e] = 46 /\ g_ascii_isdigit(s[e + 1])
TokenStarts(s) ==
    {p \in 1..Len(s) : /\ g_ascii_isdigit(s[p])
                       /\ p = 1 \/ ~g_ascii_isdigit(s[p - 1])
                       /\ TokenEnds(s, p + DigitRun(s, p))}
RunValue(s, p) == DigitsVal(SubSeq(s, p, p + DigitRun(s, p) - 1))
TokenOk(s, p) == VersionOk(RunValue(s, p), RunValue(s, p + DigitRun(s, p) + 1))
FirstTokenOk(s) == TokenStarts(s) # {} /\ TokenOk(s, SetMin(TokenStarts(s)))
C24_FirstVersionToken ==
    call.fn = "check_7z_available"
        => (call.ret <=> g_find_program_in_path(env7z.at) /\ env7z.spawn /\ FirstTokenOk(call.arg))

\* C25: the search for an external tool tries the bundled directory, then
\* the directory next to the executable, then the command search path, and
\* gives the first of them that holds the tool; the tool is missing only
\* when it is in none of the three.
ClaimedLocation(at) ==
    IF "bundled" \in at THEN "bundled"
    ELSE IF "adjacent" \in at THEN "adjacent"
    ELSE IF "adjacent-parent" \in at THEN "adjacent-parent"
    ELSE IF "path" \in at THEN "path"
    ELSE ""
C25_Dwarfs ==
    ~tools_checked /\ tools_checked'
        => /\ dwarfsextract_path' = ClaimedLocation(envDwarfs.extractAt)
           /\ dwarfsck_path' = ClaimedLocation(envDwarfs.ckAt)
C25_Squashfs ==
    ~tool_checked /\ tool_checked' => unsquashfs_path' = ClaimedLocation(envSquashfs)
C25_7z ==
    /\ ~sevenz_checked /\ sevenz_checked'
    /\ ClaimedLocation(env7z.at) # ""
    /\ env7z.spawn
    /\ env7z.banner = Banner2301
    => sevenz_available'
C25_FirstLocation == [][C25_Dwarfs /\ C25_Squashfs /\ C25_7z]_vars

\* C26: find_first_desktop_entry returns the first path of the listing that
\* ends in ".desktop", letters of either case taken as equal, and returns
\* none only when no path of the listing ends so.
EndsInDesktop(p) ==
    /\ Len(p) >= Len(DesktopSuffix)
    /\ StrCaseEq(SubSeq(p, Len(p) - Len(DesktopSuffix) + 1, Len(p)), DesktopSuffix)
DesktopPaths(listing) == {i \in 1..Len(listing) : EndsInDesktop(listing[i])}
C26_FirstDesktopEntry ==
    call.fn = "find_first_desktop_entry"
        => call.out = IF DesktopPaths(call.listed) = {} THEN <<>>
                      ELSE call.listed[SetMin(DesktopPaths(call.listed))]

\* C27 as stated: for a raster image wider and higher than the target size
\* S, the size computed by scale_pixbuf is exactly S x S.
BothLarger == call.fn = "scale_pixbuf" /\ call.arg[1] > call.arg[3] /\ call.arg[2] > call.arg[3]
IsNearest(r, num, den) == 2 * r * den - 2 * num \in (0 - den)..den
ScaledSide(r, side, longer, size) ==
    IF side = longer THEN r = size
    ELSE r \in 1..size /\ (IsNearest(r, side * size, longer) \/ (r = 1 /\ 2 * side * size < longer))
HelperReturned == prog = "helper" /\ pc = "returned"
C28_ClaimedExitZero == HelperReturned /\ call.ret = TRUE => call.status = "exit0"

\* C28: every helper that runs an external tool has called waitpid for the
\* child it forked when it returns, and assigns the output buffer of the
\* caller only when it returns TRUE; command_capture, command_capture_dwarfs
\* and command_run_squashfs return TRUE only if the child exited normally
\* with status 0, and the banner probe returns TRUE for a banner with a
\* version that is new enough, whatever the exit status.
C28_WaitsAndReports ==
    HelperReturned
        => /\ call.child # "running"
           /\ call.assigned => call.ret = TRUE /\ call.out = call.arg
           /\ call.ret = TRUE /\ call.fn # "check_7z_available" => call.status = "exit0"
           /\ call.fn = "check_7z_available" /\ call.child = "waited"
                => call.ret = (call.arg # <<>> /\ VersionFound(ParseBanner(call.arg)))
C28_Witness ==
    /\ HelperReturned
    /\ call.fn = "check_7z_available"
    /\ call.child = "waited"
    /\ call.status = "exit1"
    /\ call.ret = TRUE

\* C30: in appimage-thumbnailer.c, once the run on .DirIcon has failed and
\* the listing has succeeded, main starts the loop that follows pointers on
\* the first path of the listing without "/" that ends in ".svg", and, only
\* when there is none or that run fails, on the first path without "/" that
\* ends in ".png"; each is tried at most once, the loop stays within its
\* bound, and main exits with success exactly when one of the two runs
\* returns TRUE.
EndsWith(p, ext) ==
    Len(p) >= Len(ext) /\ StrCaseEq(SubSeq(p, Len(p) - Len(ext) + 1, Len(p)), ext)
RootEntries(listing, ext) ==
    {i \in 1..Len(listing) : (\A k \in 1..Len(listing[i]) : listing[i][k] # 47)
                               /\ EndsWith(listing[i], ext)}
FirstRootEntry(listing, ext) ==
    IF RootEntries(listing, ext) = {} THEN <<>> ELSE listing[SetMin(RootEntries(listing, ext))]
FallbackStarts ==
    /\ pc = "svg" /\ depth = 0 => current # <<>> /\ current = FirstRootEntry(paths, ExtSvg)
    /\ pc = "png" /\ depth = 0 => current # <<>> /\ current = FirstRootEntry(paths, ExtPng)
    /\ depth <= MAX_SYMLINK_DEPTH
C30_Step ==
    /\ FallbackStarts'
    /\ pc' = "svg" /\ pc # "svg" => pc = "list" /\ last'.ok
    /\ pc' = "png" /\ pc # "png"
        => \/ pc = "list" /\ last'.ok /\ FirstRootEntry(paths', ExtSvg) = <<>>
           \/ pc = "svg" /\ chainRet' = "FALSE"
    /\ pc = "svg" /\ pc' # "svg"
        => IF chainRet' = "TRUE" THEN pc' = "done" /\ exit' = "EXIT_SUCCESS"
           ELSE IF FirstRootEntry(paths, ExtPng) # <<>> THEN pc' = "png"
           ELSE pc' = "done" /\ exit' = "EXIT_FAILURE"
    /\ pc = "png" /\ pc' # "png"
        => pc' = "done" /\ (exit' = "EXIT_SUCCESS" <=> chainRet' = "TRUE")
    /\ pc = "list" /\ pc' = "done" => exit' # "EXIT_SUCCESS"
C30_RootFallback == [][prog = "thumbnailer" => C30_Step]_vars
C30_Witness ==
    /\ prog = "thumbnailer"
    /\ pc = "png"
    /\ depth = 0
    /\ chainRet = "FALSE"
    /\ FirstRootEntry(paths, ExtSvg) # <<>>
    /\ current = FirstRootEntry(paths, ExtPng)

====
